---------------------------- MODULE Spec2Model ----------------------------
(***************************************************************************)
(* A model of the AVR-NET-IO smartmeter firmware: the S0 pulse meters      *)
(* (S0Smartmeter.hpp), the pin change interrupt that feeds them and the    *)
(* polling loop that reads them (main.cpp).                                *)
(***************************************************************************)
EXTENDS Integers, Sequences, FiniteSets, TLC

(***************************************************************************)
(* Bounds of the model.                                                    *)
(***************************************************************************)

\* Number of S0 meters of the model; the firmware is built with 8.
CONFIG_S0_SMARTMETER_MAX_NUM == 2

\* No further edge is applied to the port once the meters have counted this
\* many pulses together.
MaxPulses == 2

\* The millisecond clock stops here.
MaxNow == 7200

\* Longest recorded history of the observed meter (pulses and reads).
MaxHist == 4

\* Where the clock stops when the decrease of the power is followed to its
\* end: the time process() needs to bring PowerInputs' largest value to 0.
MaxDecayNow == 1843200

\* The pulses a meter counts in the long run (SpecEnergy)
MaxEnergyPulses == 1194

\* The clock advances in steps of these sizes (ms).
TickSteps == {3600}

\* Arguments offered to init(): one pin below, two inside and one above the
\* range of port A; calibrations below, inside and above 1..6000.
PinInputs == {23, 24, 25, 32}
PulsesPerKWHInputs == {0, 1000, 6001}

(***************************************************************************)
(* Program constants.                                                      *)
(***************************************************************************)

mcPinRangeMin == 24
mcPinRangeMax == 31
PULSES_PER_KWH_RANGE_MIN == 1
PULSES_PER_KWH_RANGE_MAX == 6000
UINT8_MAX == 255

Channel == 0 .. (CONFIG_S0_SMARTMETER_MAX_NUM - 1)

\* "No meter": the value of probe when no meter is observed.
NoChannel == 0 - 1

(***************************************************************************)
(* Machine arithmetic.                                                     *)
(***************************************************************************)

U8(x) == x % 256

\* The largest integer TLC computes with.
INT32_MAX == 2147483647

\* A value of type uint32_t or unsigned long (32 bit on the AVR), reduced
\* modulo 2^32.  TLC computes with 32 bit signed integers and stops with an
\* error on an overflow, so a value of the model is below 2^31 and a
\* non-negative one is its own residue; a negative one wraps.
U32(x) == IF x >= 0 THEN x ELSE (x + INT32_MAX) + (INT32_MAX + 2)

\* The product x * y of two uint32_t values, y > 0, is below 2^32: it does
\* not wrap.  2^32 - 1 is 2 * INT32_MAX + 1, so x is compared with
\* (2^32 - 1) div y, computed from the quotient and the remainder of
\* INT32_MAX by y.
MulFitsU32(x, y) ==
    x <= 2 * (INT32_MAX \div y) + (2 * (INT32_MAX % y) + 1) \div y

\* _BV(bit) of avr-libc; a shift beyond the register width leaves no bit.
_BV(bitNo) == 2 ^ bitNo

\* 0 != (value & _BV(bitNo))
BitIsSet(value, bitNo) == (value \div _BV(bitNo)) % 2 = 1

\* value | _BV(bitNo) and value & ~_BV(bitNo) on an 8 bit register
SetBit(value, bitNo) ==
    IF BitIsSet(value, bitNo) THEN value ELSE U8(value + _BV(bitNo))
ClearBit(value, bitNo) ==
    IF BitIsSet(value, bitNo) THEN value - _BV(bitNo) ELSE value

\* A division by zero is undefined: the quotient is whatever the build
\* yields, here any of these values.
UndefinedU32 == {0, 1, INT32_MAX}

(***************************************************************************)
(* S0Pin and S0Smartmeter: one record per object, one operator per method. *)
(* A method maps the object (and its arguments) to the object after the    *)
(* call.                                                                   *)
(***************************************************************************)

\* The object after its constructor.  gS0Smartmeters has static storage, so
\* the members the constructors leave out (m_pinNo, m_decPowerDuration) are
\* zero.
S0Smartmeter ==
    [ m_id                |-> UINT8_MAX,
      m_isEnabled         |-> FALSE,
      m_name              |-> "",
      m_pulsesPerKWH      |-> 1000,
      m_energyPerPulse    |-> 0,
      m_pinNo             |-> 0,
      m_pulseCnt          |-> 0,
      m_timestamp         |-> 0,
      m_isFirstPulse      |-> TRUE,
      m_powerConsumption  |-> 0,
      m_lastTimeDiff      |-> 0,
      m_decPowerDuration  |-> 0 ]

\* S0Pin::init
S0Pin_init(s, pinNumber) ==
    IF (mcPinRangeMin <= pinNumber) /\ (mcPinRangeMax >= pinNumber)
    THEN [obj |-> [s EXCEPT !.m_pinNo = pinNumber], status |-> TRUE]
    ELSE [obj |-> s, status |-> FALSE]

\* Mutation of getPortBitNo: every pin maps to bit 0
getPortBitNo_Bit0(s) == 0

\* S0Pin::getPortBitNo
getPortBitNo(s) == U8(s.m_pinNo - mcPinRangeMin)

\* Mutation of S0Pin_disable: the mask is assigned, not and-ed
S0Pin_disable_Assign(mask, s) == 255 - _BV(U8(s.m_pinNo - mcPinRangeMin))

\* Mutation of S0Pin_enable: the mask is assigned, not or-ed
S0Pin_enable_Assign(mask, s) == _BV(U8(s.m_pinNo - mcPinRangeMin))

\* S0Pin::enable and S0Pin::disable, on the value of PCMSK0
S0Pin_enable(mask, s) == SetBit(mask, U8(s.m_pinNo - mcPinRangeMin))
S0Pin_disable(mask, s) == ClearBit(mask, U8(s.m_pinNo - mcPinRangeMin))

\* Mutation of init: no upper limit for the pulses per kWh
init_NoUpperLimit(s, id, name, pinS0, pulsesPerKWH) ==
    LET pin == S0Pin_init(s, pinS0)
    IN  IF pin.status /\ PULSES_PER_KWH_RANGE_MIN <= pulsesPerKWH
        THEN [obj |-> [pin.obj EXCEPT
                         !.m_id = id,
                         !.m_name = name,
                         !.m_pulsesPerKWH = pulsesPerKWH,
                         !.m_energyPerPulse = (60 * 60 * 1000) \div pulsesPerKWH],
              status |-> TRUE]
        ELSE [obj |-> pin.obj, status |-> FALSE]

\* Mutation of init: the energy per pulse is taken per second, not per ms
init_PerSecond(s, id, name, pinS0, pulsesPerKWH) ==
    LET pin == S0Pin_init(s, pinS0)
    IN  IF /\ pin.status
           /\ PULSES_PER_KWH_RANGE_MIN <= pulsesPerKWH
           /\ PULSES_PER_KWH_RANGE_MAX >= pulsesPerKWH
        THEN [obj |-> [pin.obj EXCEPT
                         !.m_id = id,
                         !.m_name = name,
                         !.m_pulsesPerKWH = pulsesPerKWH,
                         !.m_energyPerPulse = (60 * 60) \div pulsesPerKWH],
              status |-> TRUE]
        ELSE [obj |-> pin.obj, status |-> FALSE]

\* Mutation of init: the energy per pulse is taken twice
init_Twice(s, id, name, pinS0, pulsesPerKWH) ==
    LET pin == S0Pin_init(s, pinS0)
    IN  IF /\ pin.status
           /\ PULSES_PER_KWH_RANGE_MIN <= pulsesPerKWH
           /\ PULSES_PER_KWH_RANGE_MAX >= pulsesPerKWH
        THEN [obj |-> [pin.obj EXCEPT
                         !.m_id = id,
                         !.m_name = name,
                         !.m_pulsesPerKWH = pulsesPerKWH,
                         !.m_energyPerPulse =
                             (2 * 60 * 60 * 1000) \div pulsesPerKWH],
              status |-> TRUE]
        ELSE [obj |-> pin.obj, status |-> FALSE]

\* S0Smartmeter::init
init(s, id, name, pinS0, pulsesPerKWH) ==
    LET pin == S0Pin_init(s, pinS0)
    IN  IF /\ pin.status
           /\ PULSES_PER_KWH_RANGE_MIN <= pulsesPerKWH
           /\ PULSES_PER_KWH_RANGE_MAX >= pulsesPerKWH
        THEN [obj |-> [pin.obj EXCEPT
                         !.m_id = id,
                         !.m_name = name,
                         !.m_pulsesPerKWH = pulsesPerKWH,
                         !.m_energyPerPulse = (60 * 60 * 1000) \div pulsesPerKWH],
              status |-> TRUE]
        ELSE [obj |-> pin.obj, status |-> FALSE]

\* Mutation of disable: the counters are cleared with the flag
disable_Clear(s) ==
    [s EXCEPT !.m_isEnabled = FALSE, !.m_pulseCnt = 0, !.m_timestamp = 0]

\* S0Smartmeter::enable and S0Smartmeter::disable, on the object
enable(s) == [s EXCEPT !.m_isEnabled = TRUE]
disable(s) == [s EXCEPT !.m_isEnabled = FALSE]

\* S0Smartmeter::isEnabled
isEnabled(s) == s.m_isEnabled

\* S0Smartmeter::getPulseCnt: the value returned; the object is not written.
getPulseCnt(s) == s.m_pulseCnt

\* Mutation of internalISR: the interval and the power are computed at
\* every pulse, the first one too
internalISR_NoGuard(s, timestamp, undef) ==
    LET counted == [s EXCEPT !.m_pulseCnt = U32(@ + 1),
                             !.m_timestamp = timestamp]
        lastTimeDiff == U32(timestamp - counted.m_timestamp)
    IN  [counted EXCEPT
           !.m_lastTimeDiff = lastTimeDiff,
           !.m_decPowerDuration = U32(2 * lastTimeDiff),
           !.m_powerConsumption =
               IF lastTimeDiff = 0
               THEN undef
               ELSE U32(counted.m_energyPerPulse * 1000) \div lastTimeDiff]

\* S0Smartmeter::internalISR; timestamp is millis(), undef the quotient the
\* build yields for a division by zero.
internalISR(s, timestamp, undef) ==
    LET counted == [s EXCEPT !.m_pulseCnt = U32(@ + 1),
                             !.m_timestamp = timestamp]
        lastTimeDiff == U32(timestamp - counted.m_timestamp)
    IN  IF ~s.m_isFirstPulse
        THEN [counted EXCEPT
                !.m_lastTimeDiff = lastTimeDiff,
                !.m_decPowerDuration = U32(2 * lastTimeDiff),
                !.m_powerConsumption =
                    IF lastTimeDiff = 0
                    THEN undef
                    ELSE U32(counted.m_energyPerPulse * 1000) \div lastTimeDiff]
        ELSE counted

\* S0Smartmeter::getResult: the three out parameters; the object is not
\* written.
getResult(s) ==
    [ powerConsumption  |-> s.m_powerConsumption,
      pulseCnt          |-> s.m_pulseCnt,
      energyConsumption |-> U32(s.m_pulseCnt * s.m_energyPerPulse) ]

\* Mutation of DecreasedPower: a delta of 0 or 1 leaves the power as it is
DecreasedPower_NoFloor(powerConsumption, delta) ==
    IF 1 >= delta
    THEN powerConsumption
    ELSE IF delta >= powerConsumption
         THEN 0
         ELSE powerConsumption - delta

\* Mutation of DecreasedPower: the subtraction without the clamp, the
\* difference taken as an unsigned value
DecreasedPower_Wrap(powerConsumption, delta) ==
    IF 1 >= delta
    THEN 0
    ELSE (powerConsumption - delta) % INT32_MAX

\* The power after a decrease by delta (process, lines 395-406)
DecreasedPower(powerConsumption, delta) ==
    IF 1 >= delta
    THEN 0
    ELSE IF delta >= powerConsumption
         THEN 0
         ELSE powerConsumption - delta

\* Mutation of process: an enabled meter takes its energy per pulse as the
\* estimate
process_Estimate(s, timestamp, undef) ==
    IF s.m_isEnabled
    THEN [s EXCEPT !.m_powerConsumption = s.m_energyPerPulse]
    ELSE s

\* Mutation of process: a due step leaves the decrease duration as it is
process_NoDoubling(s, timestamp, undef) ==
    IF /\ s.m_isEnabled /\ ~s.m_isFirstPulse
       /\ 0 < s.m_powerConsumption
       /\ s.m_decPowerDuration <= U32(timestamp - s.m_timestamp)
    THEN [s EXCEPT !.m_powerConsumption =
                      DecreasedPower(@, IF s.m_decPowerDuration = 0
                                        THEN undef
                                        ELSE U32(s.m_energyPerPulse * 1000)
                                               \div s.m_decPowerDuration)]
    ELSE s

\* Mutation of process: the power is decreased at every call, due or not
process_Eager(s, timestamp, undef) ==
    IF s.m_isEnabled /\ ~s.m_isFirstPulse /\ 0 < s.m_powerConsumption
    THEN [s EXCEPT !.m_powerConsumption =
                      DecreasedPower(@, IF s.m_decPowerDuration = 0
                                        THEN undef
                                        ELSE U32(s.m_energyPerPulse * 1000)
                                               \div s.m_decPowerDuration),
                   !.m_decPowerDuration = U32(@ * 2)]
    ELSE s

\* S0Smartmeter::process; now is millis(), undef as in internalISR.
process(s, now, undef) ==
    IF s.m_isEnabled /\ ~s.m_isFirstPulse
    THEN IF 0 < s.m_powerConsumption
         THEN LET timeTillLastPulse == U32(now - s.m_timestamp)
              IN  IF s.m_decPowerDuration <= timeTillLastPulse
                  THEN LET delta == IF s.m_decPowerDuration = 0
                                    THEN undef
                                    ELSE U32(s.m_energyPerPulse * 1000)
                                           \div s.m_decPowerDuration
                       IN  [s EXCEPT
                              !.m_powerConsumption = DecreasedPower(@, delta),
                              !.m_decPowerDuration = U32(@ * 2)]
                  ELSE s
         ELSE s
    ELSE s

(***************************************************************************)
(* The state.                                                              *)
(***************************************************************************)

VARIABLES
    gS0Smartmeters, \* main.cpp: the meters, Channel -> object
    PCMSK0,         \* pin change mask register of port A
    PINA,           \* the levels at the pins of port A
    PCIF0,          \* pin change interrupt 0 is pending
    lastValue,      \* ISR(PCINT0_vect): static lastValue
    now,            \* millis()
    SREG_I,         \* global interrupt enable flag of the status register
    reading,        \* getResult() in progress, statement by statement
    probe,          \* the observed meter, or NoChannel
    lastStep,       \* the last step of the program and its calls on probe
    hist,           \* the pulses given to and the results read from probe
    inCall,         \* process() or enable() in progress, statement by statement
    EEPROM,         \* the persistent memory
    fallen          \* probe, if its pin is low since a fall that came while
                    \* the meter was enabled and was not yet dispatched

vars == << gS0Smartmeters, PCMSK0, PINA, PCIF0, lastValue, now,
           SREG_I, reading, lastStep, probe, hist, inCall, EEPROM, fallen >>

\* The port bits an S0 signal can be wired to: those of the valid pins.
PortBits ==
    { p - mcPinRangeMin :
        p \in { q \in PinInputs : mcPinRangeMin <= q /\ q <= mcPinRangeMax } }

\* What the observer notes of a step of the program: the step, the methods
\* it called on probe and what the call returned.
Step(act, calls, status) ==
    IF probe = NoChannel
    THEN lastStep
    ELSE [ act    |-> act,
           calls  |-> { call \in calls : call[2] = probe },
           status |-> status ]

PulseEvent(t) ==
    [ev |-> "pulse", t |-> t, res |-> getResult(S0Smartmeter)]
ReadEvent(res) ==
    [ev |-> "read", t |-> 0, res |-> res]

\* No getResult() is in progress; the Arduino core has enabled the
\* interrupts before setup().
NotReading ==
    [ pc                |-> "idle",
      sreg              |-> TRUE,
      powerConsumption  |-> 0,
      pulseCnt          |-> 0,
      energyConsumption |-> 0,
      atPower           |-> S0Smartmeter,
      atPulseCnt        |-> S0Smartmeter ]
\* Neither process() nor enable() is in progress.
NoCall ==
    [ pc                |-> "idle",
      sreg              |-> TRUE,
      seen              |-> S0Smartmeter,
      timeTillLastPulse |-> 0,
      delta             |-> 0 ]

\* PersistentMemory: status pattern of a valid memory
STATUS_VALID == 165

\* PersistentMemory::S0Data::S0Data
S0Data ==
    [ isEnabled |-> FALSE, name |-> "", pinS0 |-> 0, pulsesPerKWH |-> 1000 ]

\* Mutation of PersistentMemory_init: restored only when the status and the
\* number of blocks are both wrong
PersistentMemory_init_Both(eeprom) ==
    IF (STATUS_VALID # eeprom.status) /\
       (CONFIG_S0_SMARTMETER_MAX_NUM # eeprom.s0Num)
    THEN [ eeprom |->
             [ status |-> STATUS_VALID,
               s0Num  |-> CONFIG_S0_SMARTMETER_MAX_NUM,
               s0Data |-> [index \in Channel |->
                             [S0Data EXCEPT !.name = "S0-" \o ToString(index)]] ],
           ret |-> "RET_RESTORED" ]
    ELSE [ eeprom |-> eeprom, ret |-> "RET_OK" ]

\* PersistentMemory::init, on the content of the EEPROM: a memory that is
\* not valid is replaced by the defaults.  The debug byte is left out.
PersistentMemory_init(eeprom) ==
    IF (STATUS_VALID # eeprom.status) \/
       (CONFIG_S0_SMARTMETER_MAX_NUM # eeprom.s0Num)
    THEN [ eeprom |->
             [ status |-> STATUS_VALID,
               s0Num  |-> CONFIG_S0_SMARTMETER_MAX_NUM,
               s0Data |-> [index \in Channel |->
                             [S0Data EXCEPT !.name = "S0-" \o ToString(index)]] ],
           ret |-> "RET_RESTORED" ]
    ELSE [ eeprom |-> eeprom, ret |-> "RET_OK" ]

\* PersistentMemory::readS0Data
readS0Data(eeprom, index) ==
    IF CONFIG_S0_SMARTMETER_MAX_NUM > index
    THEN eeprom.s0Data[index]
    ELSE S0Data

\* The persistent memory of a controller that was never configured: the
\* defaults PersistentMemory::init() wrote at the first start.
RestoredEEPROM ==
    PersistentMemory_init(
        [ status |-> UINT8_MAX, s0Num |-> UINT8_MAX,
          s0Data |-> [index \in Channel |-> S0Data] ]).eeprom

InitContext ==
    /\ SREG_I = TRUE
    /\ reading = NotReading
    /\ inCall = NoCall
    /\ EEPROM = RestoredEEPROM
    /\ fallen = {}

\* The state after the constructors and the reset of the controller; the
\* S0 outputs are open, the pull-ups hold the pins high.
InitProgram ==
    /\ gS0Smartmeters = [c \in Channel |-> S0Smartmeter]
    /\ PCMSK0 = 0
    /\ PINA = 255
    /\ PCIF0 = FALSE
    /\ lastValue = 255
    /\ now = 0
    /\ lastStep = [act |-> "reset", calls |-> {}, status |-> "void"]
    /\ hist = << >>
    /\ InitContext

(***************************************************************************)
(* The environment: the clock and the S0 signals.                          *)
(***************************************************************************)

Tick ==
    /\ \E d \in TickSteps :
          /\ now + d <= MaxNow
          /\ now' = now + d
    /\ UNCHANGED << gS0Smartmeters, PCMSK0, PINA, PCIF0, lastValue,
                    lastStep, probe, hist,
                    SREG_I, reading,
                    inCall, EEPROM, fallen >>

\* The pulses the meters 0 .. c have counted together
RECURSIVE PulsesCounted(_)
PulsesCounted(c) ==
    IF c < 0 THEN 0 ELSE gS0Smartmeters[c].m_pulseCnt + PulsesCounted(c - 1)

\* The meters whose pin is wired to the port bit, and the enabled ones
WiredTo(bitNo) ==
    { c \in Channel :
        /\ gS0Smartmeters[c].m_id # UINT8_MAX
        /\ getPortBitNo(gS0Smartmeters[c]) = bitNo }
EnabledAt(bitNo) ==
    { c \in WiredTo(bitNo) : gS0Smartmeters[c].m_isEnabled }

\* The level at one pin changes; the change raises the interrupt when the
\* pin's bit is set in PCMSK0.
PinChangeBelow(maxPulses) ==
    /\ PulsesCounted(CONFIG_S0_SMARTMETER_MAX_NUM - 1) < maxPulses
    /\ Len(hist) < MaxHist
    /\ \E bitNo \in PortBits :
          /\ PINA' = IF BitIsSet(PINA, bitNo)
                     THEN ClearBit(PINA, bitNo)
                     ELSE SetBit(PINA, bitNo)
          /\ PCIF0' = (PCIF0 \/ BitIsSet(PCMSK0, bitNo))
          /\ fallen' = IF BitIsSet(PINA, bitNo)
                       THEN fallen \cup (EnabledAt(bitNo) \cap {probe})
                       ELSE fallen \ WiredTo(bitNo)
    /\ UNCHANGED << gS0Smartmeters, PCMSK0, lastValue, now,
                    lastStep, probe, hist,
                    SREG_I, reading,
                    inCall, EEPROM >>
PinChange == PinChangeBelow(MaxPulses)

\* The same, for a meter that counts for a long time
PinChangeEnergy == PinChangeBelow(MaxEnergyPulses)

(***************************************************************************)
(* The interrupt.                                                          *)
(***************************************************************************)

\* Mutation of IsFallingEdge: the dispatcher takes the rising edge
IsRisingEdge(last, value, bitNo) ==
    ~BitIsSet(last, bitNo) /\ BitIsSet(value, bitNo)

\* Mutation of IsFallingEdge: the dispatcher takes every change of the bit
IsAnyEdge(last, value, bitNo) ==
    BitIsSet(last, bitNo) # BitIsSet(value, bitNo)

\* Falling edge? (main.cpp, lines 913-914)
IsFallingEdge(last, value, bitNo) ==
    BitIsSet(last, bitNo) /\ ~BitIsSet(value, bitNo)

\* Mutation of Pulsed: the dispatch asks whether a meter is initialised, not
\* whether it is enabled
Pulsed_Initialised(meters, last, value) ==
    { c \in Channel :
        /\ meters[c].m_id # UINT8_MAX
        /\ IsFallingEdge(last, value, getPortBitNo(meters[c])) }

\* The meters whose internalISR() a dispatch with these patterns calls.
Pulsed(meters, last, value) ==
    { c \in Channel :
        /\ meters[c].m_isEnabled
        /\ IsFallingEdge(last, value, getPortBitNo(meters[c])) }

\* ISR(PCINT0_vect)
PCINT0_vect ==
    /\ PCIF0
    /\ SREG_I
    /\ LET value == PINA
           pulsed == Pulsed(gS0Smartmeters, lastValue, value)
       IN  /\ \E undef \in [pulsed -> UndefinedU32] :
                 gS0Smartmeters' =
                    [c \in Channel |->
                        IF c \in pulsed
                        THEN internalISR(gS0Smartmeters[c], now, undef[c])
                        ELSE gS0Smartmeters[c]]
           /\ lastValue' = value
           /\ lastStep' = Step("PCINT0_vect",
                               { <<"internalISR", c>> : c \in pulsed }, "void")
           /\ hist' = IF probe \in pulsed
                      THEN Append(hist, PulseEvent(now))
                      ELSE hist
    /\ PCIF0' = FALSE
    /\ fallen' = {}
    /\ UNCHANGED << PCMSK0, PINA, now, probe,
                    SREG_I, reading,
                    inCall, EEPROM >>

(***************************************************************************)
(* Calls of the methods of one meter by its host.                          *)
(***************************************************************************)

\* init(), as setup() calls it: once per meter, before the meter is enabled.
CallInit(c) ==
    /\ gS0Smartmeters[c].m_id = UINT8_MAX
    /\ \E pinS0 \in PinInputs, pulsesPerKWH \in PulsesPerKWHInputs :
          LET r == init(gS0Smartmeters[c], c, "S0", pinS0, pulsesPerKWH)
          IN  /\ gS0Smartmeters' = [gS0Smartmeters EXCEPT ![c] = r.obj]
              /\ lastStep' = Step("init", { <<"init", c, pinS0, pulsesPerKWH>> },
                                  IF r.status THEN "true" ELSE "false")
    /\ UNCHANGED << PCMSK0, PINA, PCIF0, lastValue, now, probe, hist,
                    SREG_I, reading,
                    inCall, EEPROM, fallen >>

\* init() with any number of pulses per kWh, from one below the range to one
\* above it
CallInitCalibration(c) ==
    /\ gS0Smartmeters[c].m_id = UINT8_MAX
    /\ \E pulsesPerKWH \in (PULSES_PER_KWH_RANGE_MIN - 1)
                               .. (PULSES_PER_KWH_RANGE_MAX + 1) :
          LET r == init(gS0Smartmeters[c], c, "S0", mcPinRangeMin, pulsesPerKWH)
          IN  /\ gS0Smartmeters' = [gS0Smartmeters EXCEPT ![c] = r.obj]
              /\ lastStep' = Step("init",
                                  { <<"init", c, mcPinRangeMin, pulsesPerKWH>> },
                                  IF r.status THEN "true" ELSE "false")
    /\ UNCHANGED << PCMSK0, PINA, PCIF0, lastValue, now, probe, hist,
                    SREG_I, reading,
                    inCall, EEPROM, fallen >>

\* enable(), only after a successful init()
CallEnable(c) ==
    /\ gS0Smartmeters[c].m_id # UINT8_MAX
    /\ PCMSK0' = S0Pin_enable(PCMSK0, gS0Smartmeters[c])
    /\ gS0Smartmeters' = [gS0Smartmeters EXCEPT ![c] = enable(@)]
    /\ lastStep' = Step("enable", { <<"enable", c>> }, "void")
    /\ UNCHANGED << PINA, PCIF0, lastValue, now, probe, hist,
                    SREG_I, reading,
                    inCall, EEPROM, fallen >>

CallDisable(c) ==
    /\ gS0Smartmeters[c].m_id # UINT8_MAX
    /\ PCMSK0' = S0Pin_disable(PCMSK0, gS0Smartmeters[c])
    /\ gS0Smartmeters' = [gS0Smartmeters EXCEPT ![c] = disable(@)]
    /\ lastStep' = Step("disable", { <<"disable", c>> }, "void")
    /\ UNCHANGED << PINA, PCIF0, lastValue, now, probe, hist,
                    SREG_I, reading,
                    inCall, EEPROM, fallen >>

\* The history after the meters in read were read, one after the other.
Reads(read) ==
    IF probe \in read
    THEN Append(hist, ReadEvent(getResult(gS0Smartmeters[probe])))
    ELSE hist

CallGetResult(c) ==
    /\ c = probe => Len(hist) < MaxHist
    /\ lastStep' = Step("getResult", { <<"getResult", c>> }, "void")
    /\ hist' = Reads({c})
    /\ UNCHANGED << gS0Smartmeters, PCMSK0, PINA, PCIF0, lastValue, now, probe,
                    SREG_I, reading,
                    inCall, EEPROM, fallen >>

\* getPulseCnt(); the value returned is the status of the step
CallGetPulseCnt(c) ==
    /\ lastStep' = Step("getPulseCnt", { <<"getPulseCnt", c>> },
                        IF getPulseCnt(gS0Smartmeters[c]) = 0
                        THEN "zero" ELSE "nonzero")
    /\ UNCHANGED << gS0Smartmeters, PCMSK0, PINA, PCIF0, lastValue, now,
                    probe, hist,
                    SREG_I, reading,
                    inCall, EEPROM, fallen >>

CallProcess(c) ==
    /\ \E obj \in { process(gS0Smartmeters[c], now, undef) :
                       undef \in UndefinedU32 } :
          gS0Smartmeters' = [gS0Smartmeters EXCEPT ![c] = obj]
    /\ lastStep' = Step("process", { <<"process", c>> }, "void")
    /\ UNCHANGED << PCMSK0, PINA, PCIF0, lastValue, now, probe, hist,
                    SREG_I, reading,
                    inCall, EEPROM, fallen >>

(***************************************************************************)
(* getResult() statement by statement, for what an interrupt may do while  *)
(* the call is under way.  CallGetResult is the same call in one step.     *)
(***************************************************************************)

\* Mutation of ATOMIC_BLOCK: the block leaves the interrupts as they are
ATOMIC_BLOCK_Open(sreg_i) == sreg_i

\* ATOMIC_BLOCK(ATOMIC_RESTORESTATE): the I flag inside the block, after
\* SREG was saved (cli)
ATOMIC_BLOCK(sreg_i) == FALSE

\* Entry of the block
getResult_Enter(c) ==
    /\ reading.pc = "idle"
    /\ SREG_I' = ATOMIC_BLOCK(SREG_I)
    /\ reading' = [NotReading EXCEPT !.pc = "atomic", !.sreg = SREG_I]
    /\ UNCHANGED << gS0Smartmeters, PCMSK0, PINA, PCIF0, lastValue, now,
                    lastStep, probe, hist,
                    inCall, EEPROM, fallen >>

\* powerConsumption = m_powerConsumption
getResult_ReadPower(c) ==
    /\ reading.pc = "atomic"
    /\ reading' = [reading EXCEPT
                     !.pc = "power",
                     !.powerConsumption = gS0Smartmeters[c].m_powerConsumption,
                     !.atPower = gS0Smartmeters[c]]
    /\ UNCHANGED << gS0Smartmeters, PCMSK0, PINA, PCIF0, lastValue, now,
                    SREG_I, lastStep, probe, hist,
                    inCall, EEPROM, fallen >>

\* pulseCnt = m_pulseCnt
getResult_ReadPulseCnt(c) ==
    /\ reading.pc = "power"
    /\ reading' = [reading EXCEPT
                     !.pc = "pulseCnt",
                     !.pulseCnt = gS0Smartmeters[c].m_pulseCnt,
                     !.atPulseCnt = gS0Smartmeters[c]]
    /\ UNCHANGED << gS0Smartmeters, PCMSK0, PINA, PCIF0, lastValue, now,
                    SREG_I, lastStep, probe, hist,
                    inCall, EEPROM, fallen >>

\* End of the block (SREG restored), energyConsumption and return
getResult_Return(c) ==
    /\ reading.pc = "pulseCnt"
    /\ SREG_I' = reading.sreg
    /\ reading' = [reading EXCEPT
                     !.pc = "idle",
                     !.energyConsumption =
                         U32(reading.pulseCnt * gS0Smartmeters[c].m_energyPerPulse)]
    /\ UNCHANGED << gS0Smartmeters, PCMSK0, PINA, PCIF0, lastValue, now,
                    lastStep, probe, hist,
                    inCall, EEPROM, fallen >>

(***************************************************************************)
(* process() statement by statement.  CallProcess is the same call in one  *)
(* step.  inCall.seen is the meter as the block found it, with the writes  *)
(* of the block applied.                                                   *)
(***************************************************************************)

\* if ((true == m_isEnabled) && (false == m_isFirstPulse)), before the block
process_Test(c) ==
    /\ inCall.pc = "idle"
    /\ gS0Smartmeters[c].m_isEnabled
    /\ ~gS0Smartmeters[c].m_isFirstPulse
    /\ inCall' = [NoCall EXCEPT !.pc = "process"]
    /\ UNCHANGED << gS0Smartmeters, PCMSK0, PINA, PCIF0, lastValue, now,
                    SREG_I, reading, lastStep, probe, hist, EEPROM, fallen >>

\* Entry of the block
process_Enter(c) ==
    /\ inCall.pc = "process"
    /\ SREG_I' = ATOMIC_BLOCK(SREG_I)
    /\ inCall' = [inCall EXCEPT !.pc = "atomic",
                                !.sreg = SREG_I,
                                !.seen = gS0Smartmeters[c]]
    /\ UNCHANGED << gS0Smartmeters, PCMSK0, PINA, PCIF0, lastValue, now,
                    reading, lastStep, probe, hist, EEPROM, fallen >>

\* if (0 < m_powerConsumption)
process_TestPower(c) ==
    /\ inCall.pc = "atomic"
    /\ inCall' = [inCall EXCEPT
                    !.pc = IF 0 < gS0Smartmeters[c].m_powerConsumption
                           THEN "power"
                           ELSE "leave"]
    /\ UNCHANGED << gS0Smartmeters, PCMSK0, PINA, PCIF0, lastValue, now,
                    SREG_I, reading, lastStep, probe, hist, EEPROM, fallen >>

\* timeTillLastPulse = millis() - m_timestamp
process_ReadTime(c) ==
    /\ inCall.pc = "power"
    /\ inCall' = [inCall EXCEPT
                    !.pc = "time",
                    !.timeTillLastPulse =
                        U32(now - gS0Smartmeters[c].m_timestamp)]
    /\ UNCHANGED << gS0Smartmeters, PCMSK0, PINA, PCIF0, lastValue, now,
                    SREG_I, reading, lastStep, probe, hist, EEPROM, fallen >>

\* if (m_decPowerDuration <= timeTillLastPulse)
process_TestDue(c) ==
    /\ inCall.pc = "time"
    /\ inCall' = [inCall EXCEPT
                    !.pc = IF gS0Smartmeters[c].m_decPowerDuration
                                <= inCall.timeTillLastPulse
                           THEN "due"
                           ELSE "leave"]
    /\ UNCHANGED << gS0Smartmeters, PCMSK0, PINA, PCIF0, lastValue, now,
                    SREG_I, reading, lastStep, probe, hist, EEPROM, fallen >>

\* delta = (m_energyPerPulse * 1000) / m_decPowerDuration
process_Delta(c) ==
    /\ inCall.pc = "due"
    /\ \E delta \in
            IF gS0Smartmeters[c].m_decPowerDuration = 0
            THEN UndefinedU32
            ELSE { U32(gS0Smartmeters[c].m_energyPerPulse * 1000)
                     \div gS0Smartmeters[c].m_decPowerDuration } :
          inCall' = [inCall EXCEPT !.pc = "delta", !.delta = delta]
    /\ UNCHANGED << gS0Smartmeters, PCMSK0, PINA, PCIF0, lastValue, now,
                    SREG_I, reading, lastStep, probe, hist, EEPROM, fallen >>

\* The three branches that write m_powerConsumption
process_Decrease(c) ==
    /\ inCall.pc = "delta"
    /\ gS0Smartmeters' =
          [gS0Smartmeters EXCEPT
             ![c].m_powerConsumption = DecreasedPower(@, inCall.delta)]
    /\ inCall' = [inCall EXCEPT
                    !.pc = "decreased",
                    !.seen.m_powerConsumption = DecreasedPower(@, inCall.delta)]
    /\ UNCHANGED << PCMSK0, PINA, PCIF0, lastValue, now,
                    SREG_I, reading, lastStep, probe, hist, EEPROM, fallen >>

\* m_decPowerDuration *= 2
process_Double(c) ==
    /\ inCall.pc = "decreased"
    /\ gS0Smartmeters' =
          [gS0Smartmeters EXCEPT ![c].m_decPowerDuration = U32(@ * 2)]
    /\ inCall' = [inCall EXCEPT !.pc = "leave",
                                !.seen.m_decPowerDuration = U32(@ * 2)]
    /\ UNCHANGED << PCMSK0, PINA, PCIF0, lastValue, now,
                    SREG_I, reading, lastStep, probe, hist, EEPROM, fallen >>

\* End of the block (SREG restored) and return
process_Leave(c) ==
    /\ inCall.pc = "leave"
    /\ SREG_I' = inCall.sreg
    /\ inCall' = NoCall
    /\ UNCHANGED << gS0Smartmeters, PCMSK0, PINA, PCIF0, lastValue, now,
                    reading, lastStep, probe, hist, EEPROM, fallen >>

(***************************************************************************)
(* enable() statement by statement.  CallEnable is the same call in one    *)
(* step.                                                                   *)
(***************************************************************************)

\* m_s0Pin.enable()
enable_Pin(c) ==
    /\ inCall.pc = "idle"
    /\ gS0Smartmeters[c].m_id # UINT8_MAX
    /\ PCMSK0' = S0Pin_enable(PCMSK0, gS0Smartmeters[c])
    /\ inCall' = [NoCall EXCEPT !.pc = "enable"]
    /\ UNCHANGED << gS0Smartmeters, PINA, PCIF0, lastValue, now,
                    SREG_I, reading, lastStep, probe, hist, EEPROM, fallen >>

\* m_isEnabled = true
enable_Flag(c) ==
    /\ inCall.pc = "enable"
    /\ gS0Smartmeters' = [gS0Smartmeters EXCEPT ![c] = enable(@)]
    /\ inCall' = NoCall
    /\ lastStep' = Step("enable", { <<"enable", c>> }, "void")
    /\ UNCHANGED << PCMSK0, PINA, PCIF0, lastValue, now,
                    SREG_I, reading, probe, hist, EEPROM, fallen >>

(***************************************************************************)
(* setup(): the meters are configured from the persistent memory.          *)
(***************************************************************************)

\* Mutation of SetupMeter: the enabled flag of the parameter block is not
\* looked at
SetupMeter_NoFlag(s, index, psS0Data) ==
    LET r == init(s, index, psS0Data.name,
                  psS0Data.pinS0, psS0Data.pulsesPerKWH)
    IN  IF r.status
        THEN [ obj   |-> enable(r.obj),
               calls |-> { <<"init", index, "true">>, <<"enable", index>> } ]
        ELSE [ obj   |-> r.obj,
               calls |-> { <<"init", index, "false">> } ]

\* The body of the loop over the meters: init() and enable() of one meter,
\* with the calls made on it.
SetupMeter(s, index, psS0Data) ==
    IF psS0Data.isEnabled
    THEN LET r == init(s, index, psS0Data.name,
                       psS0Data.pinS0, psS0Data.pulsesPerKWH)
         IN  IF r.status
             THEN [ obj   |-> enable(r.obj),
                    calls |-> { <<"init", index, "true">>,
                                <<"enable", index>> } ]
             ELSE [ obj   |-> r.obj,
                    calls |-> { <<"init", index, "false">> } ]
    ELSE [ obj |-> s, calls |-> {} ]

\* PCMSK0 after the meters 0 .. index were set up
RECURSIVE SetupMask(_, _)
SetupMask(meters, index) ==
    IF index < 0
    THEN PCMSK0
    ELSE IF meters[index].m_isEnabled
         THEN S0Pin_enable(SetupMask(meters, index - 1), meters[index])
         ELSE SetupMask(meters, index - 1)

\* setup(), once after the reset.  The pin change interrupt is enabled in
\* PCICR at its end, so no dispatch runs inside it; the network is left out.
setup ==
    /\ lastStep.act = "reset"
    /\ LET ps == PersistentMemory_init(EEPROM)
           done == [index \in Channel |->
                      SetupMeter(gS0Smartmeters[index], index,
                                 readS0Data(ps.eeprom, index))]
           meters == [index \in Channel |-> done[index].obj]
       IN  /\ EEPROM' = ps.eeprom
           /\ gS0Smartmeters' = meters
           /\ PCMSK0' = SetupMask(meters, CONFIG_S0_SMARTMETER_MAX_NUM - 1)
           /\ lastStep' = [ act    |-> "setup",
                            calls  |-> UNION { done[index].calls :
                                                 index \in Channel },
                            status |-> ps.ret ]
    /\ UNCHANGED << PINA, PCIF0, lastValue, now, SREG_I, reading, probe,
                    hist, inCall, fallen >>

(***************************************************************************)
(* The web request router and the polling loop.                            *)
(***************************************************************************)

\* WebReqRouter: number of routes
NUM_ROUTES == 5

\* Route::Route
Route == [method |-> "Invalid", uri |-> "", handler |-> "nullptr"]

\* The first free slot at or after idx, NUM_ROUTES if there is none
\* (the loop of addRoute; slots count from 0, m_routes[idx] is routes[idx + 1])
RECURSIVE FreeSlot(_, _)
FreeSlot(routes, idx) ==
    IF NUM_ROUTES > idx /\ Len(routes[idx + 1].uri) # 0
    THEN FreeSlot(routes, idx + 1)
    ELSE idx

\* WebReqRouter::addRoute, on m_routes
addRoute(routes, method, uri, handler) ==
    LET idx == FreeSlot(routes, 0)
    IN  IF NUM_ROUTES > idx
        THEN [routes EXCEPT ![idx + 1] =
                [method |-> method, uri |-> uri, handler |-> handler]]
        ELSE routes

\* m_routes of gWebReqRouter after the calls of addRoute() in setup()
m_routes ==
    LET r0 == [i \in 1 .. NUM_ROUTES |-> Route]
        r1 == addRoute(r0, "Get", "/", "handleRoot")
        r2 == addRoute(r1, "Get", "/api/s0-interface/?", "handleS0InterfaceReq")
        r3 == addRoute(r2, "Get", "/api/s0-interfaces", "handleS0InterfacesReq")
        r4 == addRoute(r3, "Get", "/api/configure/?", "handleConfigureGetReq")
    IN  addRoute(r4, "Post", "/api/configure/?", "handleConfigurePostReq")

\* String::lastIndexOf: the last place of ch in str, counted from 0, or -1
RECURSIVE LastIndexFrom(_, _, _)
LastIndexFrom(str, ch, i) ==
    IF i = 0
    THEN 0 - 1
    ELSE IF SubSeq(str, i, i) = ch
         THEN i - 1
         ELSE LastIndexFrom(str, ch, i - 1)
lastIndexOf(str, ch) == LastIndexFrom(str, ch, Len(str))

\* String::substring(left, right): the characters left .. right - 1,
\* counted from 0
substring(str, left, right) == SubSeq(str, left + 1, right)

\* String::startsWith
startsWith(str, prefix) ==
    Len(prefix) <= Len(str) /\ SubSeq(str, 1, Len(prefix)) = prefix

\* Does the route match the request? (handle, lines 170-192)
RouteMatches(route, method, resource) ==
    /\ method = route.method
    /\ 0 < Len(route.uri)
    /\ LET lastIndex == lastIndexOf(route.uri, "?")
       IN  IF 0 <= lastIndex
           THEN startsWith(resource, substring(route.uri, 0, lastIndex - 1))
           ELSE route.uri = resource

\* The slot of the first matching route at or after idx, NUM_ROUTES if there
\* is none (the loop of handle)
RECURSIVE FoundRoute(_, _, _, _)
FoundRoute(routes, method, resource, idx) ==
    IF NUM_ROUTES > idx /\ ~RouteMatches(routes[idx + 1], method, resource)
    THEN FoundRoute(routes, method, resource, idx + 1)
    ELSE idx

\* WebReqRouter::handle: the handler it calls, "nullptr" when it returns
\* false
handle(routes, method, resource) ==
    LET idx == FoundRoute(routes, method, resource, 0)
    IN  IF NUM_ROUTES > idx THEN routes[idx + 1].handler ELSE "nullptr"

\* HttpResource::operator[] of the ArduinoHttpServer library: the part of
\* the resource after its (index + 1)-th '/', up to the next '/'; no such
\* part is the empty string.
RECURSIVE IndexOfFrom(_, _, _)
IndexOfFrom(str, ch, i) ==
    IF i > Len(str)
    THEN 0
    ELSE IF SubSeq(str, i, i) = ch THEN i ELSE IndexOfFrom(str, ch, i + 1)
RECURSIVE ResourcePart(_, _, _)
ResourcePart(resource, index, from) ==
    LET slash == IndexOfFrom(resource, "/", from)
    IN  IF slash = 0
        THEN ""
        ELSE IF index = 0
             THEN LET next == IndexOfFrom(resource, "/", slash + 1)
                  IN  SubSeq(resource, slash + 1,
                             IF next = 0 THEN Len(resource) ELSE next - 1)
             ELSE ResourcePart(resource, index - 1, slash + 1)

\* String::toInt: the number the leading digits spell, 0 when there is none
Digits ==
    [ d \in {"0", "1", "2", "3", "4", "5", "6", "7", "8", "9"} |->
        CASE d = "0" -> 0 [] d = "1" -> 1 [] d = "2" -> 2 [] d = "3" -> 3
          [] d = "4" -> 4 [] d = "5" -> 5 [] d = "6" -> 6 [] d = "7" -> 7
          [] d = "8" -> 8 [] d = "9" -> 9 ]
RECURSIVE ToIntFrom(_, _, _)
ToIntFrom(str, i, value) ==
    IF i <= Len(str) /\ SubSeq(str, i, i) \in DOMAIN Digits
    THEN ToIntFrom(str, i + 1, 10 * value + Digits[SubSeq(str, i, i)])
    ELSE value
toInt(str) == ToIntFrom(str, 1, 0)

\* The GET requests of the model
Resources ==
    { "/", "/api/s0-interface/0", "/api/s0-interface/1",
      "/api/s0-interface/9", "/api/s0-interfaces", "/index.html" }

\* gWebReqRouter.handle() for each of them: the handler called
HandlerOf == [r \in Resources |-> handle(m_routes, "Get", r)]

\* handleS0InterfaceReq: s0SmartmeterIndex, httpRequest.getResource()[2].toInt()
\* as uint8_t
s0SmartmeterIndexOf == [r \in Resources |-> U8(toInt(ResourcePart(r, 2, 1)))]

\* The meters whose getResult() a handler calls (through s0Smartmeter2JSON,
\* or directly in handleRoot): the enabled ones it visits.
MetersRead(handler, resource) ==
    CASE handler \in {"handleRoot", "handleS0InterfacesReq"} ->
            { c \in Channel : gS0Smartmeters[c].m_isEnabled }
      [] handler = "handleS0InterfaceReq" ->
            LET s0SmartmeterIndex == s0SmartmeterIndexOf[resource]
            IN  IF CONFIG_S0_SMARTMETER_MAX_NUM <= s0SmartmeterIndex
                THEN {}
                ELSE { c \in {s0SmartmeterIndex} : gS0Smartmeters[c].m_isEnabled }
      [] OTHER -> {}

\* What one pass of the loop finds at the network: no request to serve (no
\* link, no client or a request that does not parse), or a GET request.
LoopInputs ==
    { [served |-> FALSE, resource |-> ""] } \cup
    { [served |-> TRUE, resource |-> r] : r \in Resources }

\* loop(), that is handleNetwork(): serve at most one request.  Replies and
\* log messages (and gLinkStatus, which only selects log messages) are left
\* out; no meter is written.
loop ==
    /\ \E read \in { MetersRead(IF in.served
                                 THEN HandlerOf[in.resource]
                                 ELSE "nullptr", in.resource) :
                      in \in LoopInputs } :
              /\ probe \in read => Len(hist) < MaxHist
              /\ lastStep' = Step("loop", { <<"getResult", c>> : c \in read },
                                  "void")
              /\ hist' = Reads(read)
    /\ UNCHANGED << gS0Smartmeters, PCMSK0, PINA, PCIF0, lastValue, now, probe,
                    SREG_I, reading,
                    inCall, EEPROM, fallen >>

(***************************************************************************)
(* The specifications.                                                     *)
(***************************************************************************)

Calls(S) ==
    \E c \in S :
        \/ CallInit(c)
        \/ CallEnable(c)
        \/ CallDisable(c)
        \/ CallGetResult(c)
        \/ CallGetPulseCnt(c)
        \/ CallProcess(c)

\* All meters, none observed.
Init == InitProgram /\ probe = NoChannel
Next == Tick \/ PinChange \/ PCINT0_vect \/ loop \/ Calls(Channel)
Spec == Init /\ [][Next]_vars

\* One meter in use, and observed.
Observed == {0}
InitMeter == InitProgram /\ probe \in Observed
NextMeter == Tick \/ PinChange \/ PCINT0_vect \/ loop \/ Calls(Observed)
SpecMeter == InitMeter /\ [][NextMeter]_vars

\* The class on its own: one initialised meter in any state of its members
\* that the methods can be applied to, the first pulse flag cleared or not.
\* The pin of the meter is pin 24; its bit in PCMSK0 is set when the meter
\* is enabled and may be set by another meter on the pin when it is not.
PowerInputs == {0, 500, 1000, 2000}
DecPowerDurationInputs == {0, 3600}
ObjectStates ==
    LET s0 == init(S0Smartmeter, 0, "S0", mcPinRangeMin, 1000).obj
    IN  { [s0 EXCEPT !.m_isEnabled = enabled] : enabled \in BOOLEAN }
        \cup
        { [s0 EXCEPT !.m_isEnabled        = enabled,
                     !.m_isFirstPulse     = FALSE,
                     !.m_powerConsumption = powerConsumption,
                     !.m_decPowerDuration = decPowerDuration,
                     !.m_lastTimeDiff     = decPowerDuration \div 2] :
            enabled \in BOOLEAN,
            powerConsumption \in PowerInputs,
            decPowerDuration \in DecPowerDurationInputs }

InitObject ==
    /\ probe \in Observed
    /\ gS0Smartmeters \in
          { [c \in Channel |-> IF c = probe THEN s ELSE S0Smartmeter] :
              s \in ObjectStates }
    /\ PCMSK0 \in { mask \in {0, 1} : gS0Smartmeters[probe].m_isEnabled => mask = 1 }
    /\ PINA = 255
    /\ PCIF0 = FALSE
    /\ lastValue = 255
    /\ now = 0
    /\ lastStep = [act |-> "reset", calls |-> {}, status |-> "void"]
    /\ hist = << >>
    /\ InitContext
NextObject ==
    \/ Tick
    \/ PinChange
    \/ PCINT0_vect
    \/ \E c \in Observed : CallGetResult(c) \/ CallProcess(c)
SpecObject == InitObject /\ [][NextObject]_vars

\* The class on its own with no pulse coming: the clock runs, up to
\* MaxDecayNow, and process() is called again and again.
TickDecay ==
    /\ \E d \in TickSteps :
          /\ now + d <= MaxDecayNow
          /\ now' = now + d
    /\ UNCHANGED << gS0Smartmeters, PCMSK0, PINA, PCIF0, lastValue,
                    SREG_I, reading, lastStep, probe, hist,
                    inCall, EEPROM, fallen >>
NextDecay ==
    \/ TickDecay
    \/ \E c \in Observed : CallProcess(c)
SpecDecay ==
    /\ InitObject
    /\ [][NextDecay]_vars
    /\ WF_vars(TickDecay)
    /\ WF_vars(\E c \in Observed : CallProcess(c))

\* One meter configured and enabled by setup(), read statement by statement
\* while its S0 signal pulses.
InitRead ==
    /\ probe \in Observed
    /\ gS0Smartmeters =
          [c \in Channel |->
              IF c = probe
              THEN enable(init(S0Smartmeter, c, "S0", mcPinRangeMin, 1000).obj)
              ELSE S0Smartmeter]
    /\ PCMSK0 = S0Pin_enable(0, gS0Smartmeters[probe])
    /\ PINA = 255
    /\ PCIF0 = FALSE
    /\ lastValue = 255
    /\ now = 0
    /\ lastStep = [act |-> "reset", calls |-> {}, status |-> "void"]
    /\ hist = << >>
    /\ InitContext
NextRead ==
    \/ Tick
    \/ PinChange
    \/ PCINT0_vect
    \/ \E c \in Observed :
          \/ getResult_Enter(c)
          \/ getResult_ReadPower(c)
          \/ getResult_ReadPulseCnt(c)
          \/ getResult_Return(c)
SpecRead == InitRead /\ [][NextRead]_vars

\* The pin of one meter and the mask register: the meter initialised on any
\* pin of port A, enabled or not, PCMSK0 with any value the other meters of
\* the firmware (8 of them, on any pins) may have left in it.
InitPins ==
    /\ probe \in Observed
    /\ gS0Smartmeters \in
          { [c \in Channel |-> IF c = probe THEN s ELSE S0Smartmeter] :
              s \in { [init(S0Smartmeter, 0, "S0", pinS0, 1000).obj
                         EXCEPT !.m_isEnabled = enabled] :
                      pinS0 \in mcPinRangeMin .. mcPinRangeMax,
                      enabled \in BOOLEAN } }
    /\ PCMSK0 \in { mask \in 0 .. UINT8_MAX :
                      gS0Smartmeters[probe].m_isEnabled =>
                          BitIsSet(mask, getPortBitNo(gS0Smartmeters[probe])) }
    /\ PINA = 255
    /\ PCIF0 = FALSE
    /\ lastValue = 255
    /\ now = 0
    /\ lastStep = [act |-> "reset", calls |-> {}, status |-> "void"]
    /\ hist = << >>
    /\ InitContext
NextPins == \E c \in Observed : CallEnable(c) \/ CallDisable(c)
SpecPins == InitPins /\ [][NextPins]_vars

\* One meter, configured and enabled by setup() with the smallest, a usual or
\* the largest number of pulses per kWh, counts its pulses over a long time
\* and is read; no meter is observed.
InitEnergy ==
    /\ probe = NoChannel
    /\ gS0Smartmeters \in
          { [c \in Channel |->
               IF c \in Observed
               THEN enable(init(S0Smartmeter, c, "S0", mcPinRangeMin,
                                pulsesPerKWH).obj)
               ELSE S0Smartmeter] :
            pulsesPerKWH \in { PULSES_PER_KWH_RANGE_MIN, 1000,
                               PULSES_PER_KWH_RANGE_MAX } }
    /\ PCMSK0 = _BV(0)
    /\ PINA = 255
    /\ PCIF0 = FALSE
    /\ lastValue = 255
    /\ now = 0
    /\ lastStep = [act |-> "reset", calls |-> {}, status |-> "void"]
    /\ hist = << >>
    /\ InitContext
NextEnergy ==
    \/ PinChangeEnergy
    \/ PCINT0_vect
    \/ \E c \in Observed : CallGetResult(c)
SpecEnergy == InitEnergy /\ [][NextEnergy]_vars

\* The calibration: one meter, initialised with any number of pulses per kWh.
NextCalibration == \E c \in Observed : CallInitCalibration(c)
SpecCalibration == InitMeter /\ [][NextCalibration]_vars

\* The class on its own, process() run statement by statement while the S0
\* signal pulses.
NextProcess ==
    \/ Tick
    \/ PinChange
    \/ PCINT0_vect
    \/ \E c \in Observed :
          \/ process_Test(c)
          \/ process_Enter(c)
          \/ process_TestPower(c)
          \/ process_ReadTime(c)
          \/ process_TestDue(c)
          \/ process_Delta(c)
          \/ process_Decrease(c)
          \/ process_Double(c)
          \/ process_Leave(c)
SpecProcess == InitObject /\ [][NextProcess]_vars

\* One meter after a successful init(), not enabled yet; enable() is run
\* statement by statement while the S0 signal pulses and the pin change
\* interrupt is served.
InitEnable ==
    /\ probe \in Observed
    /\ gS0Smartmeters =
          [c \in Channel |->
              IF c = probe
              THEN init(S0Smartmeter, c, "S0", mcPinRangeMin, 1000).obj
              ELSE S0Smartmeter]
    /\ PCMSK0 = 0
    /\ PINA = 255
    /\ PCIF0 = FALSE
    /\ lastValue = 255
    /\ now = 0
    /\ lastStep = [act |-> "reset", calls |-> {}, status |-> "void"]
    /\ hist = << >>
    /\ InitContext
NextEnable ==
    \/ Tick
    \/ PinChange
    \/ PCINT0_vect
    \/ \E c \in Observed : enable_Pin(c) \/ enable_Flag(c)
SpecEnable == InitEnable /\ [][NextEnable]_vars

\* The firmware from the reset on: the persistent memory holds any of the
\* parameter blocks below for each meter, valid or not; setup() runs once,
\* then the S0 signals are served.
S0DataInputs ==
    { S0Data,
      [isEnabled |-> FALSE, name |-> "S0", pinS0 |-> 24, pulsesPerKWH |-> 1000],
      [isEnabled |-> TRUE,  name |-> "S0", pinS0 |-> 24, pulsesPerKWH |-> 1000],
      [isEnabled |-> TRUE,  name |-> "S0", pinS0 |-> 25, pulsesPerKWH |-> 1000],
      [isEnabled |-> TRUE,  name |-> "S0", pinS0 |-> 23, pulsesPerKWH |-> 1000],
      [isEnabled |-> TRUE,  name |-> "S0", pinS0 |-> 24, pulsesPerKWH |-> 0],
      [isEnabled |-> TRUE,  name |-> "S0", pinS0 |-> 24, pulsesPerKWH |-> 6001] }
InitSetup ==
    /\ probe \in Observed
    /\ gS0Smartmeters = [c \in Channel |-> S0Smartmeter]
    /\ PCMSK0 = 0
    /\ PINA = 255
    /\ PCIF0 = FALSE
    /\ lastValue = 255
    /\ now = 0
    /\ lastStep = [act |-> "reset", calls |-> {}, status |-> "void"]
    /\ hist = << >>
    /\ SREG_I = TRUE
    /\ reading = NotReading
    /\ inCall = NoCall
    /\ fallen = {}
    /\ EEPROM \in
          { [ status |-> status,
              s0Num  |-> CONFIG_S0_SMARTMETER_MAX_NUM,
              s0Data |-> s0Data ] :
              status \in {STATUS_VALID, UINT8_MAX},
              s0Data \in [Channel -> S0DataInputs] }
NextSetup == setup \/ Tick \/ PinChange \/ PCINT0_vect
SpecSetup == InitSetup /\ [][NextSetup]_vars

(***************************************************************************)
(* The observed meter and its history.                                     *)
(***************************************************************************)

\* The observed meter, before and after a step
meter == gS0Smartmeters[probe]
meterAfter == gS0Smartmeters'[probe]

IsPulse(e) == e.ev = "pulse"
IsRead(e) == e.ev = "read"

\* The place of the last read in the history, 0 if there is none
LastRead ==
    LET reads == { i \in DOMAIN hist : IsRead(hist[i]) }
    IN  IF reads = {} THEN 0 ELSE CHOOSE i \in reads : \A j \in reads : j <= i

\* All pulses of the history, and those since the last read
Pulses == SelectSeq(hist, IsPulse)
PulsesSinceRead == SelectSeq(SubSeq(hist, LastRead + 1, Len(hist)), IsPulse)

\* The pulses of the sequence came at the fixed interval d
AtInterval(pulses, d) ==
    \A i \in 1 .. (Len(pulses) - 1) : pulses[i + 1].t - pulses[i].t = d

\* The sum of the pulse counts the reads among the first n events returned
RECURSIVE PulsesReported(_)
PulsesReported(n) ==
    IF n = 0
    THEN 0
    ELSE PulsesReported(n - 1)
           + (IF IsRead(hist[n]) THEN hist[n].res.pulseCnt ELSE 0)

\* The last step of the program gave the observed meter a pulse
JustPulsed ==
    /\ lastStep.act = "PCINT0_vect"
    /\ <<"internalISR", probe>> \in lastStep.calls

\* This step reads the observed meter
ReadStep ==
    /\ Len(hist') = Len(hist) + 1
    /\ IsRead(hist'[Len(hist')])

(***************************************************************************)
(* C1: getResult() returns the current power and the current pulse count,  *)
(* returns the energy pulse count * energy per pulse for that count, and   *)
(* leaves the pulse count of the meter at 0.                               *)
(***************************************************************************)
C1_ReadAndReset ==
    [][ReadStep =>
          LET res == hist'[Len(hist')].res
          IN  /\ res.powerConsumption = meter.m_powerConsumption
              /\ res.pulseCnt = meter.m_pulseCnt
              /\ res.energyConsumption = meter.m_pulseCnt * meter.m_energyPerPulse
              /\ meterAfter.m_pulseCnt = 0]_vars

(***************************************************************************)
(* C2: after N >= 2 pulses at a fixed interval D > 0 with no read in       *)
(* between, the power is energy per pulse * 1000 div D and the pulse count *)
(* is N.                                                                   *)
(***************************************************************************)
C2_FixedInterval ==
    \A d \in 1 .. MaxNow :
        ( /\ JustPulsed
          /\ Len(PulsesSinceRead) >= 2
          /\ AtInterval(PulsesSinceRead, d) )
        => /\ meter.m_powerConsumption = (meter.m_energyPerPulse * 1000) \div d
           /\ meter.m_pulseCnt = Len(PulsesSinceRead)

(***************************************************************************)
(* C3: a meter initialised with 1000 pulses per kWh has 3600 as its energy *)
(* per pulse; after two pulses 3600 ms apart its power is 1000 W, and a    *)
(* read taken then returns 2 pulses and the energy 7200.                   *)
(***************************************************************************)
TwoPulses3600Apart(pulses) ==
    /\ meter.m_id # UINT8_MAX
    /\ meter.m_pulsesPerKWH = 1000
    /\ Len(pulses) = 2
    /\ AtInterval(pulses, 3600)

C3_Scenario ==
    /\ (meter.m_id # UINT8_MAX /\ meter.m_pulsesPerKWH = 1000)
          => meter.m_energyPerPulse = 3600
    /\ (JustPulsed /\ hist = Pulses /\ TwoPulses3600Apart(Pulses))
          => meter.m_powerConsumption = 1000
    /\ ( /\ Len(hist) = 3
         /\ IsRead(hist[3])
         /\ TwoPulses3600Apart(SubSeq(hist, 1, 2))
         /\ AtInterval(Pulses, 3600) /\ Len(Pulses) = 2 )
          => /\ hist[3].res.pulseCnt = 2
             /\ hist[3].res.energyConsumption = 7200

(***************************************************************************)
(* C4: of two reads in succession, with no pulse between them, the second  *)
(* returns the pulse count 0 and the energy 0.                             *)
(***************************************************************************)
C4_SecondReadEmpty ==
    \A i \in 2 .. Len(hist) :
        (IsRead(hist[i - 1]) /\ IsRead(hist[i]))
        => /\ hist[i].res.pulseCnt = 0
           /\ hist[i].res.energyConsumption = 0

(***************************************************************************)
(* C5: the pulse counts the reads have returned so far add up to the       *)
(* number of pulses given to the meter before the last read.               *)
(***************************************************************************)
C5_PulseConservation ==
    LastRead > 0 =>
        PulsesReported(LastRead)
            = Len(SelectSeq(SubSeq(hist, 1, LastRead), IsPulse))

(***************************************************************************)
(* The dispatch of the pin change interrupt, seen from outside: the step   *)
(* that serves the pending interrupt.  lastValue and PINA are the pattern  *)
(* observed last and the pattern this dispatch reads.                      *)
(***************************************************************************)
Dispatch == PCIF0 /\ ~PCIF0'

\* The port bit the pin of meter c is wired to
PortBitOf(c) == gS0Smartmeters[c].m_pinNo - mcPinRangeMin

\* The bits that fall between the two patterns
FallingBits(last, value) ==
    { b \in 0 .. 7 : BitIsSet(last, b) /\ ~BitIsSet(value, b) }

(***************************************************************************)
(* C6: in every dispatch of the interrupt handler, each enabled meter      *)
(* whose port bit is 1 in the pattern observed last and 0 in the pattern   *)
(* the dispatch reads gets one call of internalISR(): its pulse count      *)
(* grows by exactly 1.                                                     *)
(***************************************************************************)
C6_DispatchCountsEdge ==
    [][Dispatch =>
          \A c \in Channel :
              ( /\ gS0Smartmeters[c].m_isEnabled
                /\ PortBitOf(c) \in FallingBits(lastValue, PINA) )
              => gS0Smartmeters'[c].m_pulseCnt
                    = gS0Smartmeters[c].m_pulseCnt + 1]_vars

\* Two enabled meters on one pin have been dispatched the same falling edge.
C6_Witness ==
    /\ ~PCIF0
    /\ lastValue = PINA
    /\ \A c \in Channel :
          /\ gS0Smartmeters[c].m_isEnabled
          /\ gS0Smartmeters[c].m_pulseCnt = 1
          /\ PortBitOf(c) = PortBitOf(0)
          /\ ~BitIsSet(lastValue, PortBitOf(c))

(***************************************************************************)
(* C7: in a dispatch where only bit B falls, no meter whose pin maps to    *)
(* another bit gets a call of internalISR(): its state is unchanged, and   *)
(* the meters that count the pulse are the enabled ones on bit B.          *)
(***************************************************************************)
C7_DispatchAttribution ==
    [][Dispatch =>
          \A B \in 0 .. 7 :
              (FallingBits(lastValue, PINA) = {B})
              => \A c \in Channel :
                    IF gS0Smartmeters[c].m_isEnabled /\ PortBitOf(c) = B
                    THEN gS0Smartmeters'[c].m_pulseCnt
                            = gS0Smartmeters[c].m_pulseCnt + 1
                    ELSE gS0Smartmeters'[c] = gS0Smartmeters[c]]_vars

\* Meter 0 has counted the pulses at its pin; meter 1, enabled on another
\* pin whose level never fell, has counted none.
C7_Witness ==
    /\ ~PCIF0
    /\ lastValue = PINA
    /\ \A c \in Channel : gS0Smartmeters[c].m_isEnabled
    /\ PortBitOf(0) # PortBitOf(1)
    /\ ~BitIsSet(lastValue, PortBitOf(0))
    /\ BitIsSet(lastValue, PortBitOf(1))
    /\ gS0Smartmeters[0].m_pulseCnt = MaxPulses
    /\ gS0Smartmeters[1].m_pulseCnt = 0

NoPowerEstimate ==
    \A c \in Channel :
        /\ gS0Smartmeters[c].m_isFirstPulse
        /\ gS0Smartmeters[c].m_powerConsumption = 0
        /\ gS0Smartmeters[c].m_decPowerDuration = 0

(***************************************************************************)
(* C9: an enabled meter with a positive power that gets no further pulse,  *)
(* while the clock runs and process() keeps being called, comes to the     *)
(* power 0.                                                                *)
(***************************************************************************)
C9_DecayReachesZero ==
    (isEnabled(meter) /\ meter.m_powerConsumption > 0)
        ~> (meter.m_powerConsumption = 0)

\* process() has brought the largest power to 0, step by step, doubling the
\* decrease duration up to the last step.
C9_Witness ==
    /\ isEnabled(meter)
    /\ meter.m_powerConsumption = 0
    /\ meter.m_decPowerDuration = 2 * MaxDecayNow
    /\ lastStep.act = "process"

(***************************************************************************)
(* C10: a pass of loop() calls process() on every enabled meter.           *)
(***************************************************************************)
C10_LoopCallsProcess ==
    (lastStep.act = "loop" /\ meter.m_isEnabled)
        => <<"process", probe>> \in lastStep.calls

(***************************************************************************)
(* C11: the power consumption never wraps below zero, whatever pulses      *)
(* (also at the same millisecond), calls of process() and reads come; a    *)
(* call of process() that decreases the power by a delta of at least the   *)
(* power sets it to exactly 0, a smaller delta is subtracted.              *)
(***************************************************************************)
\* This call of process() decreases the power, by a delta that is defined
Decreases(s) ==
    /\ s.m_isEnabled
    /\ ~s.m_isFirstPulse
    /\ 0 < s.m_powerConsumption
    /\ 0 < s.m_decPowerDuration
    /\ s.m_decPowerDuration <= now - s.m_timestamp

C11_NoUnderflow ==
    [][ /\ meterAfter.m_powerConsumption >= 0
        /\ (CallProcess(probe) /\ Decreases(meter)) =>
              LET delta == (meter.m_energyPerPulse * 1000)
                              \div meter.m_decPowerDuration
              IN  meterAfter.m_powerConsumption =
                      IF delta >= meter.m_powerConsumption \/ delta <= 1
                      THEN 0
                      ELSE meter.m_powerConsumption - delta ]_vars

\* process() has just cut a positive power to 0
C11_Witness ==
    /\ lastStep.act = "process"
    /\ ~meter.m_isFirstPulse
    /\ meter.m_isEnabled
    /\ meter.m_powerConsumption = 0
    /\ meter.m_decPowerDuration = 7200
    /\ now >= 3600

(***************************************************************************)
(* C12: the pulse count of a meter changes in two ways only: a pulse       *)
(* raises it by exactly 1 and a read (getResult) sets it to 0; every other *)
(* step (process, enable, disable, getPulseCnt, init) leaves it as it is.  *)
(***************************************************************************)
\* This step gives the observed meter a pulse
PulseStep ==
    /\ Len(hist') = Len(hist) + 1
    /\ IsPulse(hist'[Len(hist')])

C12_PulseCntChanges ==
    [][ meterAfter.m_pulseCnt =
            IF PulseStep
            THEN meter.m_pulseCnt + 1
            ELSE IF ReadStep THEN 0 ELSE meter.m_pulseCnt ]_vars

(***************************************************************************)
(* C13: init() returns true exactly when the pin lies in 24..31 and the    *)
(* pulses per kWh lie in 1..6000, and false for every other argument; a    *)
(* meter that was initialised with success and then enabled is enabled.    *)
(***************************************************************************)
\* The arguments init() is applied to in every state of the meter: pins
\* and calibrations at and around the limits and at the ends of their types
InitPinArgs == {0, 23, 24, 25, 30, 31, 32, UINT8_MAX}
InitPulsesPerKWHArgs == {0, 1, 2, 1000, 5999, 6000, 6001, 60000, INT32_MAX}

ValidInitArgs(pinS0, pulsesPerKWH) ==
    /\ 24 <= pinS0 /\ pinS0 <= 31
    /\ 1 <= pulsesPerKWH /\ pulsesPerKWH <= 6000

C13_InitStatus ==
    /\ \A pinS0 \in InitPinArgs, pulsesPerKWH \in InitPulsesPerKWHArgs :
          LET r == init(meter, probe, "S0", pinS0, pulsesPerKWH)
          IN  /\ r.status <=> ValidInitArgs(pinS0, pulsesPerKWH)
              /\ r.status => isEnabled(enable(r.obj))
    /\ \A call \in lastStep.calls :
          call[1] = "init" =>
              /\ (lastStep.status = "true") <=> ValidInitArgs(call[3], call[4])
              /\ (lastStep.status = "true") <=> (meter.m_id = probe)
    /\ lastStep.act = "enable" => (meter.m_id = probe /\ isEnabled(meter))

\* The meter was initialised with success and has just been enabled
C13_Witness ==
    /\ lastStep.act = "enable"
    /\ meter.m_id = probe
    /\ meter.m_pinNo = 25
    /\ meter.m_pulsesPerKWH = 1000
    /\ isEnabled(meter)

\* init() has just refused a pin above the range
C13_WitnessRefused ==
    /\ lastStep.act = "init"
    /\ lastStep.status = "false"
    /\ <<"init", probe, 32, 1000>> \in lastStep.calls

(***************************************************************************)
(* C14: enable() sets and disable() clears bit (pin - 24) of PCMSK0, and   *)
(* every other bit of PCMSK0 is after the call what it was before, for     *)
(* every value of the mask and every pin of port A.                        *)
(***************************************************************************)
OtherBitsKept(bitNo) ==
    \A b \in 0 .. 7 :
        b # bitNo => (BitIsSet(PCMSK0', b) <=> BitIsSet(PCMSK0, b))

C14_MaskBit ==
    [][ /\ CallEnable(probe) =>
              /\ BitIsSet(PCMSK0', meter.m_pinNo - 24)
              /\ OtherBitsKept(meter.m_pinNo - 24)
        /\ CallDisable(probe) =>
              /\ ~BitIsSet(PCMSK0', meter.m_pinNo - 24)
              /\ OtherBitsKept(meter.m_pinNo - 24) ]_vars

\* disable() has just cleared the bit of pin 26 in a mask that had the
\* bits of pins 24, 26 and 31 set.
C14_Witness ==
    /\ lastStep.act = "disable"
    /\ meter.m_pinNo = 26
    /\ PCMSK0 = 129

(***************************************************************************)
(* C15: enable() and disable() change the bit of the meter in PCMSK0 and   *)
(* its m_isEnabled flag and nothing else: the counters, the timestamp, the *)
(* interval, the power, the decrease duration, the first pulse flag and    *)
(* the configuration of the meter are after the call what they were        *)
(* before, and so are the other meters.                                    *)
(***************************************************************************)
C15_EnableDisableFrame ==
    [][ \A c \in Channel :
          /\ CallEnable(c) =>
                /\ gS0Smartmeters' =
                      [gS0Smartmeters EXCEPT ![c].m_isEnabled = TRUE]
                /\ OtherBitsKept(PortBitOf(c))
          /\ CallDisable(c) =>
                /\ gS0Smartmeters' =
                      [gS0Smartmeters EXCEPT ![c].m_isEnabled = FALSE]
                /\ OtherBitsKept(PortBitOf(c)) ]_vars

\* A meter that has counted pulses after time 0 is disabled, with its count
\* and its timestamp kept.
C15_Witness ==
    \E c \in Channel :
        /\ gS0Smartmeters[c].m_id = c
        /\ ~gS0Smartmeters[c].m_isEnabled
        /\ gS0Smartmeters[c].m_pulseCnt = MaxPulses
        /\ gS0Smartmeters[c].m_timestamp > 0
        /\ ~BitIsSet(PCMSK0, PortBitOf(c))

(***************************************************************************)
(* C16: while a meter is not enabled, no dispatch of the interrupt calls   *)
(* its internalISR() and process() writes none of its members: the meter   *)
(* is after a dispatch or a call of process() what it was before.          *)
(***************************************************************************)
C16_DisabledInert ==
    [][ (~isEnabled(meter) /\ (Dispatch \/ CallProcess(probe)))
            => meterAfter = meter ]_vars

\* A meter that is not enabled has a power to decrease for longer than its
\* decrease duration, the edge at its pin has fallen and was dispatched, and
\* process() was just called on it.
C16_Witness ==
    /\ ~isEnabled(meter)
    /\ ~meter.m_isFirstPulse
    /\ meter.m_powerConsumption = 2000
    /\ meter.m_decPowerDuration = 3600
    /\ now - meter.m_timestamp >= 3600
    /\ ~BitIsSet(lastValue, PortBitOf(probe))
    /\ ~PCIF0
    /\ lastStep.act = "process"

(***************************************************************************)
(* C17: however the interrupt and a read interleave, the power and the     *)
(* pulse count that getResult() returns are those the meter had together   *)
(* in one state: no internalISR() takes effect between the read of         *)
(* m_powerConsumption and the read of m_pulseCnt.                          *)
(***************************************************************************)
C17_AtomicRead ==
    /\ reading.pc = "power" => gS0Smartmeters[probe] = reading.atPower
    /\ reading.pc = "pulseCnt" =>
          /\ reading.atPulseCnt = reading.atPower
          /\ reading.powerConsumption = reading.atPower.m_powerConsumption
          /\ reading.pulseCnt = reading.atPower.m_pulseCnt

\* A falling edge at the pin of the meter waits for its dispatch while the
\* read is between its two statements, and the meter has counted before.
C17_Witness ==
    /\ reading.pc = "power"
    /\ PCIF0
    /\ ~BitIsSet(PINA, PortBitOf(probe))
    /\ BitIsSet(lastValue, PortBitOf(probe))
    /\ ~SREG_I
    /\ meter.m_pulseCnt >= 1

(***************************************************************************)
(* C18: a pulse that finds the first pulse flag of the meter set only      *)
(* stores the timestamp and raises the pulse count by 1; the interval, the *)
(* power and the decrease duration are not written.                        *)
(***************************************************************************)
C18_FirstPulse ==
    [][Dispatch =>
          \A c \in Channel :
              ( /\ gS0Smartmeters[c].m_isEnabled
                /\ PortBitOf(c) \in FallingBits(lastValue, PINA)
                /\ gS0Smartmeters[c].m_isFirstPulse )
              => gS0Smartmeters'[c] =
                    [gS0Smartmeters[c] EXCEPT
                        !.m_pulseCnt = @ + 1,
                        !.m_timestamp = now] ]_vars

\* A meter has taken its first pulse at 3600 ms
C18_Witness ==
    \E c \in Channel :
        /\ gS0Smartmeters[c].m_isEnabled
        /\ gS0Smartmeters[c].m_pulseCnt = 1
        /\ gS0Smartmeters[c].m_timestamp = 3600
        /\ gS0Smartmeters[c].m_lastTimeDiff = 0
        /\ gS0Smartmeters[c].m_powerConsumption = 0
        /\ gS0Smartmeters[c].m_decPowerDuration = 0
        /\ ~PCIF0
        /\ ~BitIsSet(lastValue, PortBitOf(c))

(***************************************************************************)
(* C19: the first pulse flag is left after the first pulse: the meter is   *)
(* at its first pulse before any pulse and no longer in any state after    *)
(* the first internalISR(), so that the second and every later pulse       *)
(* computes an interval and a power.                                       *)
(***************************************************************************)
C19_FirstPulseLeft ==
    /\ Len(Pulses) = 0 => meter.m_isFirstPulse
    /\ Len(Pulses) >= 1 => ~meter.m_isFirstPulse

C23_NotDue ==
    [][ ( /\ CallProcess(probe)
          /\ \/ now - meter.m_timestamp < meter.m_decPowerDuration
             \/ meter.m_powerConsumption = 0
             \/ meter.m_isFirstPulse ) =>
          /\ meterAfter.m_powerConsumption = meter.m_powerConsumption
          /\ meterAfter.m_decPowerDuration = meter.m_decPowerDuration ]_vars

\* process() was called on an enabled meter with a positive power before
\* the decrease duration was over
C23_Witness ==
    /\ lastStep.act = "process"
    /\ isEnabled(meter)
    /\ ~meter.m_isFirstPulse
    /\ meter.m_powerConsumption = 2000
    /\ meter.m_decPowerDuration = 3600
    /\ now - meter.m_timestamp < 3600

(***************************************************************************)
(* C24: process() is atomic with respect to internalISR(): from the entry  *)
(* of its block to the end, through its reads of m_powerConsumption,       *)
(* m_timestamp and m_decPowerDuration and its writes, the meter is what    *)
(* the block found with the writes of the block applied: no pulse has      *)
(* taken effect in between.                                                *)
(***************************************************************************)
InProcessBlock ==
    inCall.pc \in {"atomic", "power", "time", "due", "delta", "decreased",
                   "leave"}

C24_AtomicDecay ==
    InProcessBlock => meter = inCall.seen

\* A pulse came while process() was in its block, and waits: process() has
\* decreased the power from 2000 to 1000 and doubled the decrease duration.
C24_Witness ==
    /\ inCall.pc = "leave"
    /\ PCIF0
    /\ ~BitIsSet(PINA, PortBitOf(probe))
    /\ meter.m_powerConsumption = 1000
    /\ meter.m_decPowerDuration = 7200

C26_CountsOwnEdges ==
    [][ meterAfter.m_pulseCnt # meter.m_pulseCnt
            => Dispatch /\ probe \in fallen ]_vars

(***************************************************************************)
(* C27: every dispatch works on one reading of the port: it leaves every   *)
(* meter as it is whose bit rose or did not change between the pattern     *)
(* observed last and that reading, and it ends with the reading as the     *)
(* pattern observed last, whether a meter is enabled or not.               *)
(***************************************************************************)
C27_DispatchOneReading ==
    [][ Dispatch =>
          /\ lastValue' = PINA
          /\ PINA' = PINA
          /\ \A c \in Channel :
                getPortBitNo(gS0Smartmeters[c]) \notin FallingBits(lastValue, PINA)
                    => gS0Smartmeters'[c] = gS0Smartmeters[c] ]_vars

\* A dispatch has counted the fall of a pin, and a later one has met the
\* rise of the same pin and stored it
C27_Witness ==
    /\ ~PCIF0
    /\ lastValue = PINA
    /\ \E c \in Channel :
          /\ isEnabled(gS0Smartmeters[c])
          /\ gS0Smartmeters[c].m_pulseCnt = 1
          /\ BitIsSet(lastValue, getPortBitNo(gS0Smartmeters[c]))

(***************************************************************************)
(* C28: a successful init() leaves the energy per pulse at 3600000 div     *)
(* pulses per kWh, for every number of pulses per kWh it accepts, and no   *)
(* step other than a successful init() (a pulse, process, getResult,       *)
(* enable, disable) changes the energy per pulse or the pulses per kWh of  *)
(* a meter.                                                                *)
(***************************************************************************)
C28_EnergyPerPulse ==
    [][ /\ \A pulsesPerKWH \in InitPulsesPerKWHArgs :
              LET r == init(meter, probe, "S0", mcPinRangeMin, pulsesPerKWH)
              IN  r.status =>
                     /\ r.obj.m_pulsesPerKWH = pulsesPerKWH
                     /\ r.obj.m_energyPerPulse = 3600000 \div pulsesPerKWH
        /\ meterAfter.m_id # UINT8_MAX =>
              meterAfter.m_energyPerPulse
                  = 3600000 \div meterAfter.m_pulsesPerKWH
        /\ ~(lastStep'.act = "init" /\ lastStep'.status = "true"
                /\ CallInit(probe)) =>
              /\ meterAfter.m_energyPerPulse = meter.m_energyPerPulse
              /\ meterAfter.m_pulsesPerKWH = meter.m_pulsesPerKWH ]_vars

\* The meter was initialised with success, enabled, pulsed and disabled
C28_Witness ==
    /\ lastStep.act = "disable"
    /\ meter.m_pulseCnt = 1
    /\ meter.m_energyPerPulse = 3600
    /\ meter.m_pulsesPerKWH = 1000

(***************************************************************************)
(* C29: a call of init() that returns false leaves every member of the     *)
(* meter as it was before the call, also when the pin is valid and the     *)
(* pulses per kWh are out of range.                                        *)
(***************************************************************************)
C29_FailedInitFrame ==
    [][ ( /\ CallInit(probe)
          /\ lastStep'.act = "init"
          /\ lastStep'.status = "false" ) => meterAfter = meter ]_vars

(***************************************************************************)
(* C30: setup() enables a meter only if the enabled flag of its parameter  *)
(* block is set and its init() returned true: every enabled meter has a    *)
(* pin in 24 .. 31 and 1 .. 6000 pulses per kWh, and setup() calls         *)
(* enable() on no meter whose init() failed.                               *)
(***************************************************************************)
C30_SetupEnables ==
    /\ \A c \in Channel :
          isEnabled(gS0Smartmeters[c]) =>
              /\ readS0Data(EEPROM, c).isEnabled
              /\ gS0Smartmeters[c].m_id = c
              /\ mcPinRangeMin <= gS0Smartmeters[c].m_pinNo
              /\ gS0Smartmeters[c].m_pinNo <= mcPinRangeMax
              /\ PULSES_PER_KWH_RANGE_MIN <= gS0Smartmeters[c].m_pulsesPerKWH
              /\ gS0Smartmeters[c].m_pulsesPerKWH <= PULSES_PER_KWH_RANGE_MAX
    /\ lastStep.act = "setup" =>
          \A c \in Channel :
              /\ <<"enable", c>> \in lastStep.calls
                    <=> <<"init", c, "true">> \in lastStep.calls
              /\ <<"enable", c>> \in lastStep.calls
                    <=> isEnabled(gS0Smartmeters[c])
              /\ <<"init", c, "false">> \in lastStep.calls
                    => ~isEnabled(gS0Smartmeters[c])

\* setup() has enabled meter 0, and has left meter 1 alone because its
\* init() failed
C30_Witness ==
    /\ lastStep.act = "setup"
    /\ <<"enable", 0>> \in lastStep.calls
    /\ <<"init", 1, "false">> \in lastStep.calls
    /\ isEnabled(gS0Smartmeters[0])
    /\ ~isEnabled(gS0Smartmeters[1])

(***************************************************************************)
(* C31: a call of init(), enable(), disable(), getResult(), getPulseCnt()  *)
(* or process() on meter i leaves every other meter as it is and changes   *)
(* no bit of PCMSK0 but the one of the pin of meter i; a dispatch changes  *)
(* a meter only by internalISR() on that meter itself.                     *)
(***************************************************************************)
\* Meter i is not the only one this step has written: another meter, or a
\* bit of PCMSK0 that is not the one of the pin of meter i, has changed
WritesBeside(i) ==
    \/ \E j \in Channel \ {i} : gS0Smartmeters'[j] # gS0Smartmeters[j]
    \/ /\ PCMSK0' # PCMSK0
       /\ ~OtherBitsKept(getPortBitNo(gS0Smartmeters[i]))

C31_SiblingIsolation ==
    [][ /\ \A i \in Channel :
              WritesBeside(i) =>
                  ~( \/ CallInit(i) \/ CallEnable(i) \/ CallDisable(i)
                     \/ CallGetResult(i) \/ CallGetPulseCnt(i)
                     \/ CallProcess(i) )
        /\ Dispatch =>
              /\ PCMSK0' = PCMSK0
              /\ \A j \in Channel :
                    gS0Smartmeters'[j] \in
                        { gS0Smartmeters[j] } \cup
                        { internalISR(gS0Smartmeters[j], now, undef) :
                            undef \in UndefinedU32 } ]_vars

\* Two meters on different pins, both enabled; one has counted a pulse, the
\* other none
C31_Witness ==
    \E i \in Channel, j \in Channel :
        /\ isEnabled(gS0Smartmeters[i])
        /\ isEnabled(gS0Smartmeters[j])
        /\ gS0Smartmeters[i].m_pinNo # gS0Smartmeters[j].m_pinNo
        /\ BitIsSet(PCMSK0, getPortBitNo(gS0Smartmeters[i]))
        /\ BitIsSet(PCMSK0, getPortBitNo(gS0Smartmeters[j]))
        /\ gS0Smartmeters[i].m_pulseCnt = 1
        /\ gS0Smartmeters[j].m_pulseCnt = 0

(***************************************************************************)
(* C32: for every number of pulses per kWh that init() accepts (1 .. 6000) *)
(* the product energy per pulse * 1000, which internalISR() and process()  *)
(* form, is below 2^32: it does not wrap, and neither does the power or    *)
(* the delta, the quotient of it.                                          *)
(***************************************************************************)
C32_ProductFits ==
    meter.m_id # UINT8_MAX =>
        /\ PULSES_PER_KWH_RANGE_MIN <= meter.m_pulsesPerKWH
        /\ meter.m_pulsesPerKWH <= PULSES_PER_KWH_RANGE_MAX
        /\ MulFitsU32(meter.m_energyPerPulse, 1000)

\* init() has accepted 1 pulse per kWh, the largest energy per pulse
C32_Witness ==
    /\ lastStep.act = "init"
    /\ lastStep.status = "true"
    /\ meter.m_pulsesPerKWH = PULSES_PER_KWH_RANGE_MIN
    /\ meter.m_energyPerPulse = 3600000


(***************************************************************************)
(* C33: the energy getResult() returns is the exact product of the pulses  *)
(* counted and the energy per pulse: for every configured meter the        *)
(* product m_pulseCnt * m_energyPerPulse fits into the 32 bits it is       *)
(* computed in, however many pulses the meter has counted.                 *)
(***************************************************************************)
C33_EnergyExact ==
    \A c \in Channel :
        gS0Smartmeters[c].m_id # UINT8_MAX =>
            MulFitsU32(gS0Smartmeters[c].m_pulseCnt,
                       gS0Smartmeters[c].m_energyPerPulse)


C34_ZeroAfterPulse ==
    /\ inCall.pc = "due"
    /\ meter.m_pulseCnt > 0
    /\ meter.m_decPowerDuration = 0



(***************************************************************************)
(* The configuration over the web interface.                               *)
(***************************************************************************)

\* PersistentMemory::writeS0Data
writeS0Data(eeprom, index, s0Data) ==
    IF CONFIG_S0_SMARTMETER_MAX_NUM > index
    THEN [eeprom EXCEPT !.s0Data[index] = s0Data]
    ELSE eeprom

\* The key:value pairs of the body of a POST request, as the form of
\* handleConfigureGetReq sends them: the four keys in the order of the form,
\* each with a value that is not empty.  The numbers are what atol() reads.
PostPinInputs == {0, 24, 25, 32}
PostPulsesPerKWHInputs == {0, 1000, 2000, 6001}
PostBodies ==
    [ isEnabled    : {0, 1},
      name         : {"S0-0", "Main"},
      pinS0        : PostPinInputs,
      pulsesPerKWH : PostPulsesPerKWHInputs ]

\* handleConfigurePostReq, the loop over the key:value pairs: s0Data and
\* isDirty after the pair of each key (lines 703-830)
ParseIsEnabled(p, value) ==
    IF (value # 0) # p.s0Data.isEnabled
    THEN [ s0Data  |-> [p.s0Data EXCEPT !.isEnabled = (value # 0)],
           isDirty |-> TRUE ]
    ELSE p
ParseName(p, tokStr) ==
    IF p.s0Data.name # tokStr
    THEN [ s0Data |-> [p.s0Data EXCEPT !.name = tokStr], isDirty |-> TRUE ]
    ELSE p
ParsePinS0(p, value) ==
    IF /\ 0 <= value
       /\ UINT8_MAX >= value
       /\ U8(value) # p.s0Data.pinS0
       /\ mcPinRangeMin <= U8(value)
       /\ mcPinRangeMax >= U8(value)
    THEN [ s0Data |-> [p.s0Data EXCEPT !.pinS0 = U8(value)], isDirty |-> TRUE ]
    ELSE p
ParsePulsesPerKWH(p, value) ==
    IF /\ 0 <= value
       /\ value # p.s0Data.pulsesPerKWH
       /\ PULSES_PER_KWH_RANGE_MIN <= value
       /\ PULSES_PER_KWH_RANGE_MAX >= value
    THEN [ s0Data  |-> [p.s0Data EXCEPT !.pulsesPerKWH = value],
           isDirty |-> TRUE ]
    ELSE p
ParseBody(s0Data, body) ==
    ParsePulsesPerKWH(
        ParsePinS0(
            ParseName(
                ParseIsEnabled([s0Data |-> s0Data, isDirty |-> FALSE],
                               body.isEnabled),
                body.name),
            body.pinS0),
        body.pulsesPerKWH)

\* handleConfigurePostReq: s0SmartmeterIndex,
\* httpRequest.getResource()[1].toInt() as uint8_t
ConfigureIndexOf(resource) == U8(toInt(ResourcePart(resource, 1, 1)))

\* handleConfigurePostReq, the verification against the other activated
\* interfaces (lines 844-860): isInvalid after the loop.  The block read in
\* the loop is the one of s0SmartmeterIndex.
IsInvalid(eeprom, s0SmartmeterIndex, s0Data) ==
    \E index \in 0 .. (CONFIG_S0_SMARTMETER_MAX_NUM - 1) :
        /\ index # s0SmartmeterIndex
        /\ LET s0DataOther == readS0Data(eeprom, s0SmartmeterIndex)
           IN  /\ s0DataOther.isEnabled
               /\ s0DataOther.pinS0 = s0Data.pinS0

\* handleConfigurePostReq: the persistent memory after it, the message of
\* its reply, and the block it has parsed
handleConfigurePostReq(eeprom, resource, body) ==
    LET s0SmartmeterIndex == ConfigureIndexOf(resource)
        parsed == ParseBody(readS0Data(eeprom, s0SmartmeterIndex), body)
    IN  IF parsed.isDirty
        THEN IF IsInvalid(eeprom, s0SmartmeterIndex, parsed.s0Data)
             THEN [ eeprom |-> eeprom,
                    data   |-> "Parameter not updated, because they are invalid." ]
             ELSE [ eeprom |-> writeS0Data(eeprom, s0SmartmeterIndex,
                                           parsed.s0Data),
                    data   |-> "Parameter updated. Please reboot." ]
        ELSE [ eeprom |-> eeprom, data |-> "Parameter not updated." ]

\* The requests of the model: the GET requests, and POST requests to the
\* configuration of two interfaces
ConfigureResources == { "/api/configure/0", "/api/configure/1" }
Methods == { "Get", "Post" }

\* handleNetwork() with a request that parses: gWebReqRouter.handle() calls
\* the handler of the first route found, or none (404).  Of the handlers
\* only handleConfigurePostReq writes; what the others send is left out.
handleNetwork(method, resource, body) ==
    LET handler == handle(m_routes, method, resource)
        post    == handleConfigurePostReq(EEPROM, resource, body)
    IN  /\ EEPROM' = IF handler = "handleConfigurePostReq"
                     THEN post.eeprom
                     ELSE EEPROM
        /\ lastStep' =
              [ act    |-> "handleNetwork",
                calls  |-> { <<handler, method, resource>> },
                status |-> CASE handler = "handleConfigurePostReq" -> post.data
                             [] handler = "nullptr" -> "404"
                             [] OTHER -> "void" ]
        /\ UNCHANGED << gS0Smartmeters, PCMSK0, PINA, PCIF0, lastValue, now,
                        SREG_I, reading, probe, hist, inCall, fallen >>

\* The controller after its first start, the memory restored to the
\* defaults, serves requests.
InitWeb == InitProgram /\ probe = NoChannel
NextWeb ==
    \E method \in Methods, resource \in Resources \cup ConfigureResources,
       body \in PostBodies :
        handleNetwork(method, resource, body)
SpecWeb == InitWeb /\ [][NextWeb]_vars

(***************************************************************************)
(* C35: a GET request for exactly /api/s0-interfaces is routed to          *)
(* handleS0InterfacesReq, and whenever handle() chooses a route without a  *)
(* '?' in its URI the resource of the request equals that URI. (handle()   *)
(* calls one handler or none: it stops at the first route it finds.)       *)
(***************************************************************************)
C35_ExactRoute ==
    lastStep.act = "handleNetwork" =>
        \A call \in lastStep.calls :
            /\ (call[2] = "Get" /\ call[3] = "/api/s0-interfaces")
                  => call[1] = "handleS0InterfacesReq"
            /\ LET idx == FoundRoute(m_routes, call[2], call[3], 0)
               IN  ( /\ NUM_ROUTES > idx
                     /\ 0 > lastIndexOf(m_routes[idx + 1].uri, "?") )
                       => m_routes[idx + 1].uri = call[3]


(***************************************************************************)
(* C36: no two enabled interfaces of the persistent memory have the same   *)
(* pin; a POST request to the configuration of interface k is written only *)
(* if no other enabled interface (index # k) has the pin of the update,    *)
(* and it is refused as invalid only if one has: never because of the pin  *)
(* stored for interface k itself.                                          *)
(***************************************************************************)
PinTaken(eeprom, k, pinS0) ==
    \E index \in Channel \ {k} :
        /\ eeprom.s0Data[index].isEnabled
        /\ eeprom.s0Data[index].pinS0 = pinS0
C36_PinUnique ==
    /\ [](\A k \in Channel :
             EEPROM.s0Data[k].isEnabled =>
                 ~PinTaken(EEPROM, k, EEPROM.s0Data[k].pinS0))
    /\ [][ \A resource \in ConfigureResources, body \in PostBodies :
              ( /\ lastStep'.calls =
                     { <<"handleConfigurePostReq", "Post", resource>> }
                /\ handleNetwork("Post", resource, body) ) =>
                  LET k      == ConfigureIndexOf(resource)
                      s0Data == ParseBody(readS0Data(EEPROM, k), body).s0Data
                  IN  /\ EEPROM' # EEPROM =>
                             ~PinTaken(EEPROM, k, s0Data.pinS0)
                      /\ lastStep'.status =
                           "Parameter not updated, because they are invalid."
                             => PinTaken(EEPROM, k, s0Data.pinS0) ]_vars

(***************************************************************************)
(* C37: every interface the persistent memory holds as enabled has a pin   *)
(* in 24..31 and a number of pulses per kWh in 1..6000.                    *)
(***************************************************************************)
C37_StoredValid ==
    \A index \in Channel :
        EEPROM.s0Data[index].isEnabled =>
            /\ mcPinRangeMin <= EEPROM.s0Data[index].pinS0
            /\ EEPROM.s0Data[index].pinS0 <= mcPinRangeMax
            /\ PULSES_PER_KWH_RANGE_MIN <= EEPROM.s0Data[index].pulsesPerKWH
            /\ EEPROM.s0Data[index].pulsesPerKWH <= PULSES_PER_KWH_RANGE_MAX


(***************************************************************************)
(* The persistent memory at the start of the controller.                   *)
(***************************************************************************)

\* What the EEPROM may hold at a start: a status byte and a number of blocks
\* that are as this build writes them, erased, or left by something else,
\* and any parameter blocks.
MemoryInputs ==
    { [ status |-> status, s0Num |-> s0Num, s0Data |-> s0Data ] :
        status \in {STATUS_VALID, 0, UINT8_MAX},
        s0Num  \in {CONFIG_S0_SMARTMETER_MAX_NUM,
                    CONFIG_S0_SMARTMETER_MAX_NUM - 1, UINT8_MAX},
        s0Data \in [Channel -> S0DataInputs] }

\* The block PersistentMemory::init() writes for index
S0DataDefault(index) == [S0Data EXCEPT !.name = "S0-" \o ToString(index)]

InitMemory ==
    /\ probe = NoChannel
    /\ gS0Smartmeters = [c \in Channel |-> S0Smartmeter]
    /\ PCMSK0 = 0
    /\ PINA = 255
    /\ PCIF0 = FALSE
    /\ lastValue = 255
    /\ now = 0
    /\ lastStep = [act |-> "reset", calls |-> {}, status |-> "void"]
    /\ hist = << >>
    /\ SREG_I = TRUE
    /\ reading = NotReading
    /\ inCall = NoCall
    /\ fallen = {}
    /\ EEPROM \in MemoryInputs

\* A call of PersistentMemory::init() as a whole
CallPersistentMemoryInit ==
    /\ LET ps == PersistentMemory_init(EEPROM)
       IN  /\ EEPROM' = ps.eeprom
           /\ lastStep' = [ act    |-> "PersistentMemory_init",
                            calls  |-> {},
                            status |-> ps.ret ]
    /\ UNCHANGED << gS0Smartmeters, PCMSK0, PINA, PCIF0, lastValue, now,
                    SREG_I, reading, probe, hist, inCall, fallen >>

NextMemory == CallPersistentMemoryInit
SpecMemory == InitMemory /\ [][NextMemory]_vars

(***************************************************************************)
(* C38: PersistentMemory::init() returns RET_RESTORED, and has written the *)
(* defaults to every block, exactly when the status byte was not           *)
(* STATUS_VALID or the stored number of blocks was not                     *)
(* CONFIG_S0_SMARTMETER_MAX_NUM; otherwise it returns RET_OK and has       *)
(* written nothing.  After it the status is valid and the number matches,  *)
(* and a second init() returns RET_OK.                                     *)
(***************************************************************************)
C38_InitRestores ==
    [][ lastStep'.act = "PersistentMemory_init" =>
          LET isInvalid == \/ EEPROM.status # STATUS_VALID
                           \/ EEPROM.s0Num # CONFIG_S0_SMARTMETER_MAX_NUM
          IN  /\ (lastStep'.status = "RET_RESTORED") <=> isInvalid
              /\ (lastStep'.status = "RET_OK") <=> ~isInvalid
              /\ isInvalid =>
                    \A index \in Channel :
                        EEPROM'.s0Data[index] = S0DataDefault(index)
              /\ ~isInvalid => EEPROM' = EEPROM
              /\ EEPROM'.status = STATUS_VALID
              /\ EEPROM'.s0Num = CONFIG_S0_SMARTMETER_MAX_NUM
              /\ lastStep.act = "PersistentMemory_init" =>
                    /\ lastStep'.status = "RET_OK"
                    /\ EEPROM' = EEPROM ]_vars

\* init() has found the memory not valid and has restored it: every block
\* holds the defaults.
C38_Witness ==
    /\ lastStep.act = "PersistentMemory_init"
    /\ lastStep.status = "RET_RESTORED"
    /\ EEPROM.status = STATUS_VALID
    /\ \A index \in Channel : EEPROM.s0Data[index] = S0DataDefault(index)


(***************************************************************************)
(* PersistentMemory::init() write by write, and the loss of power.         *)
(***************************************************************************)

NotValid(eeprom) ==
    (STATUS_VALID # eeprom.status) \/
    (CONFIG_S0_SMARTMETER_MAX_NUM # eeprom.s0Num)

\* The writes init() has done so far are kept in lastStep.calls; it is
\* restoring while its status is "restoring".
Restoring == lastStep.act = "PersistentMemory_init" /\ lastStep.status = "restoring"
BlocksPut == { index \in Channel : <<"put", index>> \in lastStep.calls }

\* Lines 176-180: the status and the number of blocks are read and tested
init_Test ==
    /\ lastStep.act \in {"reset", "PowerLoss"}
    /\ lastStep' = [ act    |-> "PersistentMemory_init",
                     calls  |-> {},
                     status |-> IF NotValid(EEPROM)
                                THEN "restoring"
                                ELSE "RET_OK" ]
    /\ UNCHANGED << gS0Smartmeters, PCMSK0, PINA, PCIF0, lastValue, now,
                    SREG_I, reading, probe, hist, inCall, EEPROM, fallen >>

\* Line 186: EEPROM.write(PSMEMORY_S0NUM_ADDR, CONFIG_S0_SMARTMETER_MAX_NUM)
init_WriteS0Num ==
    /\ Restoring
    /\ lastStep.calls = {}
    /\ EEPROM' = [EEPROM EXCEPT !.s0Num = CONFIG_S0_SMARTMETER_MAX_NUM]
    /\ lastStep' = [lastStep EXCEPT !.calls = { <<"write", "s0Num">> }]
    /\ UNCHANGED << gS0Smartmeters, PCMSK0, PINA, PCIF0, lastValue, now,
                    SREG_I, reading, probe, hist, inCall, fallen >>

\* Lines 188-192: the default block of the next index is put (the bytes of a
\* block are taken as written together)
init_PutS0Data ==
    /\ Restoring
    /\ <<"write", "s0Num">> \in lastStep.calls
    /\ LET index == Cardinality(BlocksPut)
       IN  /\ index < CONFIG_S0_SMARTMETER_MAX_NUM
           /\ EEPROM' = [EEPROM EXCEPT !.s0Data[index] = S0DataDefault(index)]
           /\ lastStep' = [lastStep EXCEPT !.calls = @ \cup { <<"put", index>> }]
    /\ UNCHANGED << gS0Smartmeters, PCMSK0, PINA, PCIF0, lastValue, now,
                    SREG_I, reading, probe, hist, inCall, fallen >>

\* Lines 194-200: the status is written and init() returns (the debug byte
\* is left out)
init_WriteStatus ==
    /\ Restoring
    /\ BlocksPut = Channel
    /\ EEPROM' = [EEPROM EXCEPT !.status = STATUS_VALID]
    /\ lastStep' = [lastStep EXCEPT !.status = "RET_RESTORED"]
    /\ UNCHANGED << gS0Smartmeters, PCMSK0, PINA, PCIF0, lastValue, now,
                    SREG_I, reading, probe, hist, inCall, fallen >>

\* The power is lost while init() restores; the EEPROM keeps what was
\* written, and the controller starts again.
PowerLoss ==
    /\ Restoring
    /\ lastStep' = [ act    |-> "PowerLoss",
                     calls  |-> lastStep.calls,
                     status |-> "void" ]
    /\ UNCHANGED << gS0Smartmeters, PCMSK0, PINA, PCIF0, lastValue, now,
                    SREG_I, reading, probe, hist, inCall, EEPROM, fallen >>

NextPowerLoss ==
    \/ init_Test
    \/ init_WriteS0Num
    \/ init_PutS0Data
    \/ init_WriteStatus
    \/ PowerLoss
SpecPowerLoss == InitMemory /\ [][NextPowerLoss]_vars

(***************************************************************************)
(* C39: PersistentMemory::init() is safe against a loss of power: while it *)
(* restores, or after it was interrupted in that, and a block has not been *)
(* written with the defaults yet, the memory does not read as valid (the   *)
(* status is not STATUS_VALID or the number of blocks does not match), so  *)
(* that the next init() restores again.                                    *)
(***************************************************************************)
C39_PowerLossSafe ==
    ( /\ Restoring \/ lastStep.act = "PowerLoss"
      /\ BlocksPut # Channel )
        => NotValid(EEPROM)

=============================================================================
